---- MODULE Spec2Model ----
(***************************************************************************)
(* Matching / ranking pipeline of kong-email-creator:                      *)
(*   - CandidateBlogMatcher.select_best_blogs_with_llm   (Hybrid Reranker) *)
(*   - match_candidate_to_jobs            (Two-Stage Eligibility Matcher)  *)
(*   - the two-pass diversity loop of app_old.py        (Diversity Filter) *)
(*   - CandidateBlogMatcher.find_blogs_for_candidate (Dedup. Retriever)    *)
(*   - CandidateBlogMatcher.find_blogs_for_candidate_hybrid                *)
(*   - JobPostingManager.update_job_status on the job_postings table       *)
(*   - JobPostingManager.insert_job_posting on the job_postings table      *)
(*   - PinnedBlogManager on the pinned_blogs column                        *)
(*   - update_context, the handler of /api/update-context                  *)
(*   - vectorize_candidate_summaries and save_candidate_profile, the       *)
(*     store step of /api/process-candidate                                *)
(* Each component has its own specification over its own variables; the    *)
(* variables of the other components stay at their idle values.            *)
(***************************************************************************)
EXTENDS Integers, Sequences, FiniteSets, TLC

(***************************************************************************)
(* Bounds of the model.                                                    *)
(***************************************************************************)
\* longest pool handed to the reranker
MaxPool == 3
\* largest num_to_select the reranker is called with
MaxFinal == 2
\* longest index list the LLM returns
MaxResp == 3
\* invocations of the reranker in one run of the model
MaxRuns == 2
\* calls of insert_job_posting in one run of the model
MaxInserts == 2
\* most job postings with status 'active' in the job_postings table
MaxJobs == 6
\* longest list of matches handed to the diversity loop
MaxMatches == 4
\* passages (chunks) in the blog_chunks table
MaxChunks == 3
\* blog posts the passages belong to
MaxBlogs == 2
\* postings in the job_postings table while their status is being updated
MaxPostings == 2
\* update_job_status calls in one run of the model
MaxUpdates == 2
\* calls of the PinnedBlogManager in one run of the model
MaxPinOps == 3
\* processes calling the PinnedBlogManager at the same time
MaxPinCallers == 2
\* /api/process-candidate requests in flight in one run of the model
MaxProcs == 2
\* /api/update-context requests in flight in one run of the model
MaxRequests == 2

(***************************************************************************)
(* Constants of the program.                                               *)
(***************************************************************************)
\* match_threshold=0.35, in hundredths
MatchThresholdPct == 35
\* the binary digits of the significand of a float64, the type of the
\* similarity numpy computes
SignificandBits == 53
\* the binary digits of the exponent of a float64
ExponentBits == 11
\* further binary digits of a square root or a quotient that are computed
\* before it is rounded to a float64
GuardBits == 60
\* the binary digits of one digit of a significand held as a list of digits
LimbBits == 15
LimbBase == 2 ^ LimbBits
\* semantic_candidates[:5]
LlmReviewCap == 5
\* confirmed_matches[:2]
FinalCap == 2
\* len(top_blogs) >= 3
TargetCount == 3
\* match_threshold=0.25 of the applications' blog search, in hundredths
BlogThresholdPct == 25

(***************************************************************************)
(* Variables of the Hybrid Reranker.                                       *)
(***************************************************************************)
VARIABLES
    blogs,          \* select_best_blogs_with_llm: argument blogs (the pool)
    num_to_select,  \* select_best_blogs_with_llm: argument num_to_select
    completion,     \* what chat.completions.create did for this invocation
    selected,       \* the list the invocation returned
    rr_pc,          \* "start" | "called" | "done"
    llm_calls,      \* chat.completions.create calls made by this invocation
    rr_raised,      \* an exception escaped select_best_blogs_with_llm
    rr_runs,        \* invocations started so far (the output may be fed back)
    prompt_rows     \* what the blog and candidate rows hold for the prompt

(***************************************************************************)
(* Variables of the Two-Stage Eligibility Matcher.                         *)
(***************************************************************************)
VARIABLES
    candidate_profile,    \* row of get_candidate_by_id, or NoProfile
    active_jobs,          \* active_jobs.data: ids of the active postings, as read
    job_embedding,        \* per job: the embedding the gateway returned for it
    semantic_candidates,  \* list of [job, similarity], stage 1 survivors
    confirmed_matches,    \* list of [job, similarity], stage 2 survivors
    top_matches,          \* the list the invocation returned
    evaluated,            \* jobs handed to evaluate_job_match_with_llm, in order
    accepted,             \* jobs whose evaluation came back with is_match: true
    jm_idx,               \* position of the running loop
    jm_pc,                \* "start" | "stage1" | "stage2" | "done"
    jm_error,             \* exception caught by the outer except, or "none"
    jm_raised             \* exception the invocation raised to its caller, or "none"

jm_vars == <<candidate_profile, active_jobs, job_embedding, semantic_candidates,
             confirmed_matches, top_matches, evaluated, accepted, jm_idx, jm_pc,
             jm_error, jm_raised>>

(***************************************************************************)
(* The job_postings table.                                                 *)
(***************************************************************************)
VARIABLES
    job_status,       \* per posting (row) of job_postings: its status column
    status_updates    \* update_job_status calls made so far

js_vars == <<job_status, status_updates>>

(***************************************************************************)
(* The pinned_blogs column of the candidate's row and the calls of         *)
(* PinnedBlogManager on it.                                                *)
(***************************************************************************)
VARIABLES
    pinned_blogs,   \* candidate_profiles.pinned_blogs: list of blog URLs
    pin_ops,        \* calls of the manager started so far
    pin_calls       \* per caller: the call it is in or has returned from

pn_vars == <<pinned_blogs, pin_ops, pin_calls>>

(***************************************************************************)
(* The rows of candidate_profiles and candidate_embeddings of one          *)
(* candidate_id, the /api/update-context requests and the                  *)
(* /api/process-candidate requests on them.                                *)
(***************************************************************************)
VARIABLES
    candidate_profiles,     \* the rows of the candidate_id: their primary keys
    candidate_embeddings,   \* rows: candidate_profile_id, per field the text
                            \* column and the embedding column
    requests,               \* per update-context request: its arguments,
                            \* position, local copies, answer
    procs,                  \* per process-candidate request: its position,
                            \* local copies, result
    regen                   \* the regenerate-email request: its position,
                            \* the profile it read, its answer

cx_vars == <<candidate_profiles, candidate_embeddings, requests, procs, regen>>

rr_vars == <<blogs, num_to_select, completion, selected, rr_pc, llm_calls,
             rr_raised, rr_runs, prompt_rows>>

(***************************************************************************)
(* Variables of the Diversity Filter.                                      *)
(***************************************************************************)
VARIABLES
    blog_matches,   \* the list find_blogs_for_candidate returned
    top_blogs,      \* the list being built by the two passes
    df_pc           \* "first" | "second" | "done"

df_vars == <<blog_matches, top_blogs, df_pc>>

(***************************************************************************)
(* Variables of the Deduplicating Retriever.                               *)
(***************************************************************************)
VARIABLES
    rt_candidate,   \* row of get_candidate_by_id, or NoCandidate
    passages,       \* per chunk: its blog post and its similarity to the query
    match_count,    \* find_blogs_for_candidate: argument match_count
    deduplicate,    \* find_blogs_for_candidate: argument deduplicate
    found_blogs,    \* the list the invocation returned
    rt_pc,          \* "start" | "search" | "done"
    rpc_calls,      \* supabase.rpc calls of the search made by this invocation
    rt_raised       \* the exception the invocation raised to its caller, or "none"

rt_vars == <<rt_candidate, passages, match_count, deduplicate, found_blogs, rt_pc,
             rpc_calls, rt_raised>>

(***************************************************************************)
(* Variables of find_blogs_for_candidate_hybrid.                           *)
(***************************************************************************)
VARIABLES
    final_n_llm,    \* find_blogs_for_candidate_hybrid: argument final_n_llm
    hy_selected,    \* the list the invocation returned
    hy_llm_calls,   \* chat.completions.create calls made by this invocation
    hy_pc           \* "step1" | "done"

hy_vars == <<final_n_llm, hy_selected, hy_llm_calls, hy_pc>>

(***************************************************************************)
(* Variables of JobPostingManager.insert_job_posting.                      *)
(***************************************************************************)
VARIABLES
    job_content,    \* per posting: the content columns of its row
    ins_pc,         \* "idle" | "selected"
    ins_job_id,     \* insert_job_posting: argument job_id
    ins_data,       \* insert_job_posting: argument job_data
    ins_existing,   \* existing.data of the select, as the primary keys found
    ins_result,     \* what the last call returned, or "none"
    ins_written,    \* "update" | "insert" | "none": the write of the last call
    ins_ops         \* calls of insert_job_posting so far

ij_vars == <<job_content, ins_pc, ins_job_id, ins_data, ins_existing, ins_result,
             ins_written, ins_ops>>

vars == <<rr_vars, jm_vars, df_vars, rt_vars, hy_vars, js_vars, pn_vars, cx_vars, ij_vars>>

(***************************************************************************)
(* Helpers on sequences.                                                   *)
(***************************************************************************)
Min(a, b) == IF a <= b THEN a ELSE b

Range(s) == {s[i] : i \in DOMAIN s}

SeqsUpTo(S, n) == UNION {[1..k -> S] : k \in 0..n}

\* Python s[:n] for n >= 0
Take(s, n) == SubSeq(s, 1, Min(n, Len(s)))

NoRepeats(s) == \A i, j \in DOMAIN s : i # j => s[i] # s[j]

(***************************************************************************)
(* The LLM's answer to the selection prompt.  A completion either raises   *)
(* (API error, timeout) or carries a message text.  The text is a body     *)
(* between an opening and a closing wrapper; the body is a JSON array of   *)
(* items, some other JSON value, or not JSON at all.  An item is an        *)
(* integer or a JSON string.                                               *)
(***************************************************************************)
IntItem(k) == [typ |-> "int", val |-> k]
StrItem == [typ |-> "str", val |-> 0]

Items == {IntItem(k) : k \in 0..(MaxPool + 1)} \cup {StrItem}

Bodies ==
    {[kind |-> "prose", items |-> << >>], [kind |-> "null", items |-> << >>]}
    \cup {[kind |-> "array", items |-> s] : s \in SeqsUpTo(Items, MaxResp)}

\* <<text before the body, text after the body>>; FENCE is the three-backtick
\* markdown fence, FENCE_JSON the fence followed by the word json
Wrappers == { <<"", "">>, <<"FENCE_JSON", "FENCE">>, <<"FENCE", "FENCE">>, <<"", "FENCE">> }

Completions ==
    {[raises |-> TRUE, open |-> "", close |-> "",
      body |-> [kind |-> "prose", items |-> << >>]]}
    \cup {[raises |-> FALSE, open |-> w[1], close |-> w[2], body |-> b] :
            w \in Wrappers, b \in Bodies}

NoCompletion ==
    [raises |-> FALSE, open |-> "", close |-> "",
     body |-> [kind |-> "none", items |-> << >>]]

(***************************************************************************)
(* select_best_blogs_with_llm, step by step.                               *)
(***************************************************************************)
\* if not blogs or len(blogs) <= num_to_select: return blogs
ShortCircuitStrict(bs, n) == Len(bs) = 0 \/ Len(bs) < n
ShortCircuit(bs, n) == Len(bs) = 0 \/ Len(bs) <= n

\* if result.startswith(FENCE): both replace() calls and strip() run, which
\* removes every fence; otherwise the text is left as it is, closing fence
\* included.
CleanResult(c) ==
    IF c.open \in {"FENCE_JSON", "FENCE"}
    THEN [open |-> "", close |-> "", body |-> c.body]
    ELSE [open |-> c.open, close |-> c.close, body |-> c.body]

\* json.loads(clean_result): the parsed value, or "JSONDecodeError"
JsonLoads(t) ==
    IF t.open # "" \/ t.close # "" \/ t.body.kind = "prose"
    THEN [ok |-> FALSE, value |-> t.body]
    ELSE [ok |-> TRUE, value |-> t.body]

\* idx passes `0 < idx <= len(blogs)`
InRange(item, bs) == 0 < item.val /\ item.val <= Len(bs)

\* [blogs[idx - 1] for idx in selected_indices if 0 < idx <= len(blogs)]
RECURSIVE Comprehension(_, _)
Comprehension(idxs, bs) ==
    IF idxs = << >> THEN << >>
    ELSE IF InRange(Head(idxs), bs)
         THEN <<bs[Head(idxs).val]>> \o Comprehension(Tail(idxs), bs)
         ELSE Comprehension(Tail(idxs), bs)

\* The try block after the completion arrived (lines 218-233): the value it
\* returns, or the exception it raises.  A raising completion is an API
\* error or timeout; comparing a JSON string with 0 and iterating a value
\* that is no array raise TypeError.
TryBody(bs, n, c) ==
    IF c.raises THEN [exc |-> "APIError", value |-> << >>]
    ELSE LET parsed == JsonLoads(CleanResult(c)) IN
         IF ~parsed.ok THEN [exc |-> "JSONDecodeError", value |-> << >>]
         ELSE IF parsed.value.kind # "array"
              THEN [exc |-> "TypeError", value |-> << >>]
         ELSE IF \E i \in DOMAIN parsed.value.items :
                     parsed.value.items[i].typ # "int"
              THEN [exc |-> "TypeError", value |-> << >>]
         ELSE LET selected_blogs == Comprehension(parsed.value.items, bs) IN
              [exc |-> "none",
               value |-> IF selected_blogs # << >> THEN selected_blogs
                         ELSE Take(bs, n)]

\* except Exception as e: every exception of the try block is caught
CaughtJsonOnly(exc) == exc = "JSONDecodeError"
Caught(exc) == TRUE

\* the except branch: return blogs[:num_to_select]
Fallback(bs, n) == Take(bs, n)

\* what the rows handed to the reranker hold in the columns the prompt
\* reads: all of them, or a blog without blog_title, a blog whose
\* max_similarity or best_matching_chunk is null, a candidate whose
\* about_me is null
PromptRows == {"complete", "no_blog_title", "null_max_similarity",
               "null_best_matching_chunk", "null_about_me"}

\* lines 177-209: building the prompt inside the try, before the request:
\* blog['blog_title'] raises KeyError, None * 100 and None[:200] and
\* None[:300] raise TypeError
BuildPrompt(rows) ==
    IF rows = "complete" THEN "none"
    ELSE IF rows = "no_blog_title" THEN "KeyError"
    ELSE "TypeError"

(***************************************************************************)
(* Pools: lists of distinct blogs in similarity order, as the              *)
(* deduplicating search returns them.                                      *)
(***************************************************************************)
Catalogues == { [i \in 1..MaxPool |-> i], [i \in 1..MaxPool |-> MaxPool + 1 - i] }

Pools == {SubSeq(c, 1, k) : c \in Catalogues, k \in 0..MaxPool}

RerankInit ==
    /\ blogs \in Pools
    /\ num_to_select \in 1..MaxFinal
    /\ completion = NoCompletion
    /\ selected = << >>
    /\ rr_pc = "start"
    /\ llm_calls = 0
    /\ rr_raised = FALSE
    /\ rr_runs = 1
    /\ prompt_rows \in PromptRows

\* line 173-174
RerankReturnPool ==
    /\ UNCHANGED <<jm_vars, df_vars, rt_vars, hy_vars, js_vars, pn_vars, cx_vars, ij_vars>>
    /\ rr_pc = "start"
    /\ ShortCircuit(blogs, num_to_select)
    /\ selected' = blogs
    /\ rr_pc' = "done"
    /\ UNCHANGED <<blogs, num_to_select, completion, llm_calls, rr_raised, rr_runs,
                   prompt_rows>>

\* lines 176-209 and 235-238: building the prompt raises, no completion is
\* requested and the except branch returns
RerankPromptRaises ==
    /\ UNCHANGED <<jm_vars, df_vars, rt_vars, hy_vars, js_vars, pn_vars, cx_vars, ij_vars>>
    /\ rr_pc = "start"
    /\ ~ShortCircuit(blogs, num_to_select)
    /\ BuildPrompt(prompt_rows) # "none"
    /\ IF Caught(BuildPrompt(prompt_rows))
       THEN selected' = Fallback(blogs, num_to_select) /\ rr_raised' = FALSE
       ELSE selected' = << >> /\ rr_raised' = TRUE
    /\ rr_pc' = "done"
    /\ UNCHANGED <<blogs, num_to_select, completion, llm_calls, rr_runs, prompt_rows>>

\* lines 176-216: the prompt is built and the completion requested
RerankCallLLM ==
    /\ UNCHANGED <<jm_vars, df_vars, rt_vars, hy_vars, js_vars, pn_vars, cx_vars, ij_vars>>
    /\ rr_pc = "start"
    /\ ~ShortCircuit(blogs, num_to_select)
    /\ BuildPrompt(prompt_rows) = "none"
    /\ \E c \in Completions : completion' = c
    /\ llm_calls' = llm_calls + 1
    /\ rr_pc' = "called"
    /\ UNCHANGED <<blogs, num_to_select, selected, rr_raised, rr_runs, prompt_rows>>

\* lines 218-238
RerankSelect ==
    /\ UNCHANGED <<jm_vars, df_vars, rt_vars, hy_vars, js_vars, pn_vars, cx_vars, ij_vars>>
    /\ rr_pc = "called"
    /\ LET r == TryBody(blogs, num_to_select, completion) IN
         IF r.exc = "none"
         THEN selected' = r.value /\ rr_raised' = FALSE
         ELSE IF Caught(r.exc)
              THEN selected' = Fallback(blogs, num_to_select) /\ rr_raised' = FALSE
              ELSE selected' = << >> /\ rr_raised' = TRUE
    /\ rr_pc' = "done"
    /\ UNCHANGED <<blogs, num_to_select, completion, llm_calls, rr_runs, prompt_rows>>

\* a returned list that is no longer than num_to_select is handed to the
\* reranker again (re-application to its own output)
RerankAgain ==
    /\ UNCHANGED <<jm_vars, df_vars, rt_vars, hy_vars, js_vars, pn_vars, cx_vars, ij_vars>>
    /\ rr_pc = "done"
    /\ rr_runs < MaxRuns
    /\ Len(selected) <= num_to_select
    /\ blogs' = selected
    /\ completion' = NoCompletion
    /\ selected' = << >>
    /\ llm_calls' = 0
    /\ rr_pc' = "start"
    /\ rr_runs' = rr_runs + 1
    /\ rr_raised' = FALSE
    /\ UNCHANGED <<num_to_select, prompt_rows>>

RerankNext ==
    \/ RerankReturnPool
    \/ RerankPromptRaises
    \/ RerankCallLLM
    \/ RerankSelect
    \/ RerankAgain

(***************************************************************************)
(* match_candidate_to_jobs (src/app.py).                                   *)
(***************************************************************************)
Jobs == 1..MaxJobs

NoProfile == [found |-> FALSE, embedding |-> << >>]

\* professional_summary_embedding of the candidate (or the legacy embedding)
ProfEmbedding == <<2, 1, 0, 0, 0>>

CandidateRows ==
    {NoProfile, [found |-> TRUE, embedding |-> << >>],
     [found |-> TRUE, embedding |-> ProfEmbedding]}

\* what openai_client.embeddings.create does for one job text: it raises, or
\* returns a vector.  Against ProfEmbedding the first vector has cosine
\* similarity 0.98; the second and the third have the cosine 7/20, which
\* numpy computes as the float64 of 0.35 for the second and as the float64
\* next below it, 0.3499999999999999, for the third; the fourth has fewer
\* dimensions.
NoEmbedding == [raises |-> FALSE, vec |-> << >>]

EmbeddingOutcomes ==
    {[raises |-> TRUE, vec |-> << >>]}
    \cup {[raises |-> FALSE, vec |-> v] :
            v \in { <<4, 3, 0, 0, 0>>, <<3, 15, 6, 15, 15>>, <<1, 5, 2, 5, 5>>,
                    <<1, 0, 0>> }}

RECURSIVE Dot(_, _)
Dot(a, b) == IF a = << >> THEN 0 ELSE Head(a) * Head(b) + Dot(Tail(a), Tail(b))

\* natural numbers of any size, as their digits to the base LimbBase, least
\* significant first and without leading zeros: the significands and the
\* intermediate values of the float64 operations of numpy
RECURSIVE Limbs(_)
Limbs(n) == IF n = 0 THEN << >> ELSE <<n % LimbBase>> \o Limbs(n \div LimbBase)

RECURSIVE Trim(_)
Trim(a) == IF a = << >> \/ a[Len(a)] # 0 THEN a ELSE Trim(SubSeq(a, 1, Len(a) - 1))

LimbAt(a, i) == IF i >= 1 /\ i <= Len(a) THEN a[i] ELSE 0

Rest(a) == IF a = << >> THEN << >> ELSE Tail(a)

RECURSIVE AddCarry(_, _, _)
AddCarry(a, b, c) ==
    IF a = << >> /\ b = << >> THEN (IF c = 0 THEN << >> ELSE <<c>>)
    ELSE LET s == LimbAt(a, 1) + LimbAt(b, 1) + c
         IN  <<s % LimbBase>> \o AddCarry(Rest(a), Rest(b), s \div LimbBase)

\* a - b for a >= b
RECURSIVE SubBorrow(_, _, _)
SubBorrow(a, b, c) ==
    IF a = << >> THEN << >>
    ELSE LET d == a[1] - LimbAt(b, 1) - c
         IN  <<(d + LimbBase) % LimbBase>>
                 \o SubBorrow(Tail(a), Rest(b), IF d < 0 THEN 1 ELSE 0)

BigLess(a, b) ==
    IF Len(a) # Len(b) THEN Len(a) < Len(b)
    ELSE \E i \in DOMAIN a :
            /\ a[i] < b[i]
            /\ \A k \in (i + 1)..Len(a) : a[k] = b[k]

\* a * d + c for one digit d
RECURSIVE MulLimb(_, _, _)
MulLimb(a, d, c) ==
    IF a = << >> THEN (IF c = 0 THEN << >> ELSE <<c>>)
    ELSE LET s == a[1] * d + c
         IN  <<s % LimbBase>> \o MulLimb(Tail(a), d, s \div LimbBase)

RECURSIVE BigMul(_, _)
BigMul(a, b) ==
    IF a = << >> \/ b = << >> THEN << >>
    ELSE AddCarry(MulLimb(b, Head(a), 0), Trim(<<0>> \o BigMul(Tail(a), b)), 0)

\* the number of binary digits of a
BitLen(a) ==
    IF a = << >> THEN 0
    ELSE LimbBits * (Len(a) - 1)
             + (CHOOSE k \in 1..LimbBits : 2 ^ (k - 1) <= a[Len(a)] /\ a[Len(a)] < 2 ^ k)

\* binary digit i of a, counted from 0
BitAt(a, i) == (LimbAt(a, (i \div LimbBits) + 1) \div (2 ^ (i % LimbBits))) % 2

\* a * 2^k
ShiftLeft(a, k) ==
    LET q == k \div LimbBits
        r == k % LimbBits
        n == Len(a) + 1
        hi == [i \in 1..n |->
                 ((LimbAt(a, i) * (2 ^ r)) % LimbBase)
                     + (LimbAt(a, i - 1) \div (2 ^ (LimbBits - r)))]
    IN  IF a = << >> THEN << >> ELSE [i \in 1..q |-> 0] \o Trim(hi)

\* a \div 2^k
ShiftRight(a, k) ==
    LET q == k \div LimbBits
        r == k % LimbBits
        n == Len(a) - q
    IN  IF n <= 0 THEN << >>
        ELSE Trim([i \in 1..n |->
                     (LimbAt(a, i + q) \div (2 ^ r))
                         + ((LimbAt(a, i + q + 1) % (2 ^ r)) * (2 ^ (LimbBits - r)))])

\* long division of a by b, whose leading digit is at least LimbBase / 2:
\* the digits i down to 1 of a are still to bring down, q is the quotient and
\* r the remainder of the digits above them.  The next digit d of the
\* quotient is the one with d * b <= part < (d + 1) * b; it is at most 2
\* below the quotient of the leading digits.
RECURSIVE DivFrom(_, _, _, _, _)
DivFrom(a, b, i, q, r) ==
    IF i = 0 THEN [q |-> q, r |-> r]
    ELSE LET part == Trim(<<a[i]>> \o r)
             top == (LimbAt(part, Len(b) + 1) * LimbBase + LimbAt(part, Len(b)))
                        \div b[Len(b)]
             hi == IF top < LimbBase THEN top ELSE LimbBase - 1
             d == CHOOSE c \in (hi - 2)..hi :
                     /\ c >= 0
                     /\ ~BigLess(part, Trim(MulLimb(b, c, 0)))
                     /\ BigLess(part, MulLimb(b, c + 1, 0))
         IN  IF d = 0
             THEN DivFrom(a, b, i - 1, Trim(<<0>> \o q), part)
             ELSE DivFrom(a, b, i - 1, <<d>> \o q,
                          Trim(SubBorrow(part, MulLimb(b, d, 0), 0)))

\* a by b > 0, both multiplied by 2^up to give b its leading digit: q is the
\* quotient, and r, the remainder times 2^up, is zero when b divides a
BigDivMod(a, b) ==
    LET up == (LimbBits - (BitLen(b) % LimbBits)) % LimbBits
        scaled == ShiftLeft(a, up)
    IN  DivFrom(scaled, ShiftLeft(b, up), Len(scaled), << >>, << >>)

\* the integer square root q of n > 0 and the remainder r = n - q * q, by
\* Newton's iteration: y is the approximation after x, both at least the
\* root, and the iteration ends when it no longer decreases
RECURSIVE SqrtFrom(_, _, _)
SqrtFrom(n, x, y) ==
    IF BigLess(y, x)
    THEN SqrtFrom(n, y, ShiftRight(AddCarry(y, BigDivMod(n, y).q, 0), 1))
    ELSE [q |-> x, r |-> Trim(SubBorrow(n, BigMul(x, x), 0))]

\* a float64: nan, an infinity, or the number (-1)^neg * man * 2^exp.  A
\* normal number has a significand man of SignificandBits binary digits, a
\* subnormal number has fewer and the exponent MinExponent, a zero has none
NaN == [kind |-> "nan", neg |-> FALSE, man |-> << >>, exp |-> 0]

Zero == [kind |-> "num", neg |-> FALSE, man |-> << >>, exp |-> 0]

Infinity(neg) == [kind |-> "inf", neg |-> neg, man |-> << >>, exp |-> 0]

\* the exponents of the smallest subnormal number and of the largest
\* significand
MinExponent == 2 - 2 ^ (ExponentBits - 1) - (SignificandBits - 1)
MaxExponent == 2 ^ (ExponentBits - 1) - SignificandBits

\* the exponent of the last digit that is kept of n * 2^e: a result too
\* small for a normal number keeps the exponent MinExponent and is subnormal
LastExponent(n, e) ==
    LET normal == e + BitLen(n) - SignificandBits
    IN  IF normal < MinExponent THEN MinExponent ELSE normal

\* n / 2^s to the nearest natural number, a tie to the even one; sticky says
\* that the digits below n are not all zero
RoundShift(n, sticky, s) ==
    LET kept == ShiftRight(n, s)
        below == IF s - 1 < BitLen(n) THEN s - 1 ELSE BitLen(n)
        rest == sticky \/ \E i \in 0..(below - 1) : BitAt(n, i) = 1
        up == BitAt(n, s - 1) = 1 /\ (rest \/ BitAt(kept, 0) = 1)
    IN  IF s <= 0 THEN ShiftLeft(n, -s)
        ELSE IF up THEN AddCarry(kept, <<1>>, 0) ELSE kept

\* the float64 (-1)^neg * m * 2^e of a rounded significand m, which has one
\* digit too many when the rounding carried; a result too large is an
\* infinity
Pack(m, e, neg) ==
    LET carry == BitLen(m) > SignificandBits
        exp == IF carry THEN e + 1 ELSE e
    IN  IF m = << >> THEN [Zero EXCEPT !.neg = neg]
        ELSE IF exp > MaxExponent THEN Infinity(neg)
        ELSE [kind |-> "num", neg |-> neg,
              man |-> IF carry THEN ShiftRight(m, 1) ELSE m, exp |-> exp]

\* round to nearest, ties to even, of (-1)^neg * qr.q * 2^e, plus a fraction
\* of the last digit of qr.q when qr.r is not zero, to a float64
RoundToNearestEven(qr, e, neg) ==
    Pack(RoundShift(qr.q, qr.r # << >>, LastExponent(qr.q, e) - e),
         LastExponent(qr.q, e), neg)

\* np.array of a list of numbers with integer values: the float64 of n
Float64(n) ==
    RoundToNearestEven([q |-> Limbs(IF n < 0 THEN -n ELSE n), r |-> << >>], 0, n < 0)

\* np.sqrt of a float64: nan for a negative number (a RuntimeWarning, no
\* exception)
Float64Sqrt(x) ==
    LET odd == x.exp % 2
        scaled == ShiftLeft(x.man, 2 * GuardBits + odd)
        k == (BitLen(scaled) + 1) \div 2
    IN  IF x.kind = "nan" THEN NaN
        ELSE IF x.kind = "num" /\ x.man = << >> THEN x
        ELSE IF x.neg THEN NaN
        ELSE IF x.kind = "inf" THEN x
        ELSE RoundToNearestEven(
                 SqrtFrom(scaled, ShiftLeft(<<1>>, k + 1), ShiftLeft(<<1>>, k)),
                 ((x.exp - odd) \div 2) - GuardBits, FALSE)

\* x * y: nan for an infinity times zero
Float64Mul(x, y) ==
    IF x.kind = "nan" \/ y.kind = "nan" THEN NaN
    ELSE IF x.kind = "inf" \/ y.kind = "inf"
    THEN IF (x.kind = "num" /\ x.man = << >>) \/ (y.kind = "num" /\ y.man = << >>)
         THEN NaN
         ELSE Infinity(x.neg # y.neg)
    ELSE RoundToNearestEven([q |-> BigMul(x.man, y.man), r |-> << >>],
                            x.exp + y.exp, x.neg # y.neg)

\* x / y of numpy, which raises no exception: nan for 0 / 0 and for two
\* infinities, an infinity for another number by zero (a RuntimeWarning)
Float64Div(x, y) ==
    LET sx == SignificandBits - BitLen(x.man)
        sy == SignificandBits - BitLen(y.man)
        neg == x.neg # y.neg
    IN  IF x.kind = "nan" \/ y.kind = "nan" THEN NaN
        ELSE IF x.kind = "inf"
        THEN (IF y.kind = "inf" THEN NaN ELSE Infinity(neg))
        ELSE IF y.kind = "inf" THEN [Zero EXCEPT !.neg = neg]
        ELSE IF y.man = << >>
        THEN (IF x.man = << >> THEN NaN ELSE Infinity(neg))
        ELSE IF x.man = << >> THEN [Zero EXCEPT !.neg = neg]
        ELSE RoundToNearestEven(
                 BigDivMod(ShiftLeft(x.man, sx + GuardBits), ShiftLeft(y.man, sy)),
                 (x.exp - sx) - (y.exp - sy) - GuardBits, neg)

\* x < y; every comparison with nan is false, and the two zeros are equal
Float64Less(x, y) ==
    LET MagLess(a, b) ==
            IF a.kind = "inf" THEN FALSE
            ELSE IF b.kind = "inf" THEN TRUE
            ELSE IF b.man = << >> THEN FALSE
            ELSE IF a.man = << >> THEN TRUE
            ELSE IF a.exp # b.exp THEN a.exp < b.exp
            ELSE BigLess(a.man, b.man)
        IsZero(a) == a.kind = "num" /\ a.man = << >>
    IN  /\ x.kind # "nan" /\ y.kind # "nan"
        /\ ~(IsZero(x) /\ IsZero(y))
        /\ IF x.neg # y.neg THEN x.neg
           ELSE IF x.neg THEN MagLess(y, x) ELSE MagLess(x, y)

\* match_threshold=0.35: the float64 nearest to 35/100
MatchThreshold == Float64Div(Float64(MatchThresholdPct), Float64(100))

\* np.dot(p, j) / (np.linalg.norm(p) * np.linalg.norm(j)) in float64
\* arithmetic: the dot product and the sums of squares of vectors of small
\* integers are exact, the two square roots, their product and the quotient
\* are each rounded; a zero vector gives 0 / 0, nan; np.dot raises
\* ValueError when the shapes differ.
CosineSimilarity(p, j) ==
    LET norm(v) == Float64Sqrt(Float64(Dot(v, v)))
    IN  IF Len(p) # Len(j) THEN [exc |-> "ValueError", value |-> NaN]
        ELSE [exc |-> "none",
              value |-> Float64Div(Float64(Dot(p, j)), Float64Mul(norm(p), norm(j)))]

\* similarity of line 455 for the vectors of the model, each pair computed
\* once
Similarities ==
    {[p |-> p, j |-> out.vec, similarity |-> CosineSimilarity(p, out.vec)] :
        p \in {ProfEmbedding}, out \in EmbeddingOutcomes}

Similarity(p, j) ==
    (CHOOSE row \in Similarities : row.p = p /\ row.j = j).similarity

\* similarity >= match_threshold (a nan similarity compares false)
PassesGateAlways(similarity) == TRUE
PassesGate(similarity) ==
    similarity.kind # "nan" /\ ~Float64Less(similarity, MatchThreshold)

\* a.similarity < b.similarity
SimLess(a, b) == Float64Less(a, b)

\* semantic_candidates.sort(key=similarity, reverse=True): stable, so equal
\* similarities keep their order
RECURSIVE InsertDesc(_, _)
InsertDesc(sorted, x) ==
    IF sorted = << >> THEN <<x>>
    ELSE IF SimLess(Head(sorted).similarity, x.similarity)
         THEN <<x>> \o sorted
         ELSE <<Head(sorted)>> \o InsertDesc(Tail(sorted), x)

RECURSIVE SortDesc(_)
SortNone(cands) == cands
SortDesc(cands) ==
    IF cands = << >> THEN << >>
    ELSE InsertDesc(SortDesc(SubSeq(cands, 1, Len(cands) - 1)), cands[Len(cands)])

\* what the chat completion of evaluate_job_match_with_llm does: it raises
\* (error, timeout), returns text that is no JSON, or returns a JSON object
\* whose is_match is true, false, absent or a non-empty string and whose
\* reasoning is a string or null.
JudgmentResponses ==
    {[kind |-> k, is_match |-> "absent", reasoning |-> "text"] :
        k \in {"error", "bad_json"}}
    \cup {[kind |-> "object", is_match |-> m, reasoning |-> r] :
            m \in {"true", "false", "absent", "string"}, r \in {"text", "null"}}

\* evaluate_job_match_with_llm: the parsed object, or None after any exception
EvaluateJobMatchWithLlm(resp) ==
    IF resp.kind = "object"
    THEN [none |-> FALSE, is_match |-> resp.is_match, reasoning |-> resp.reasoning]
    ELSE [none |-> TRUE, is_match |-> "absent", reasoning |-> "text"]

\* `evaluation and evaluation.get('is_match')`: Python truthiness
IsMatch(evaluation) == ~evaluation.none /\ evaluation.is_match \in {"true", "string"}

\* evaluation.get('reasoning', ...)[:100] in the log lines of both branches
\* raises TypeError when reasoning is null
LogRaises(evaluation) == ~evaluation.none /\ evaluation.reasoning = "null"

\* semantic_candidates[:5]
ReviewAll(cands) == cands
Review(cands) == Take(cands, LlmReviewCap)

\* confirmed_matches[:2]
TopAll(confirmed) == confirmed
Top(confirmed) == Take(confirmed, FinalCap)

\* the values of the status column (JobPostingManager.update_job_status)
Statuses == {"active", "inactive", "filled", "closed"}

\* job_postings.select('*').eq('status', 'active'): the rows whose status
\* is active, in table order
ActiveJobsAll(table) == [k \in 1..Len(table) |-> k]
ActiveJobs(table) ==
    LET F[k \in 0..Len(table)] ==
            IF k = 0 THEN << >>
            ELSE IF table[k] = "active" THEN Append(F[k - 1], k) ELSE F[k - 1]
    IN  F[Len(table)]

\* tables of up to n postings, all of them active
ActiveTables(n) == {[i \in 1..k |-> "active"] : k \in 0..n}

JobsInit ==
    /\ candidate_profile \in CandidateRows
    /\ job_status \in ActiveTables(MaxJobs)
    /\ status_updates = 0
    /\ active_jobs = << >>
    /\ job_embedding = [j \in Jobs |-> NoEmbedding]
    /\ semantic_candidates = << >>
    /\ confirmed_matches = << >>
    /\ top_matches = << >>
    /\ evaluated = << >>
    /\ accepted = {}
    /\ jm_idx = 0
    /\ jm_pc = "start"
    /\ jm_error = "none"
    /\ jm_raised = "none"

\* except Exception as e (line 516): every exception of the body is caught
JobsCaught(exc) == TRUE

\* return [] from any place of the function: a return statement of the body
\* (error = "none"), or the return of the outer except after an exception
JobsReturnEmpty(error) ==
    /\ top_matches' = << >>
    /\ jm_pc' = "done"
    /\ jm_error' = error
    /\ jm_raised' = IF error = "none" \/ JobsCaught(error) THEN "none" ELSE error

\* lines 392-428: the candidate, the embedding, the active jobs; the
\* select of the active jobs (lines 419-422) may raise, which the outer
\* except answers with []
JobsStart ==
    /\ UNCHANGED <<rr_vars, df_vars, rt_vars, hy_vars, js_vars, pn_vars, cx_vars, ij_vars>>
    /\ jm_pc = "start"
    /\ IF ~candidate_profile.found \/ candidate_profile.embedding = << >>
       THEN JobsReturnEmpty("none") /\ UNCHANGED <<jm_idx, active_jobs>>
       ELSE \/ /\ active_jobs' = ActiveJobs(job_status)
               /\ IF ActiveJobs(job_status) = << >>
                  THEN JobsReturnEmpty("none") /\ UNCHANGED jm_idx
                  ELSE /\ jm_pc' = "stage1" /\ jm_idx' = 1
                       /\ UNCHANGED <<top_matches, jm_error, jm_raised>>
            \/ /\ JobsReturnEmpty("APIError")
               /\ UNCHANGED <<jm_idx, active_jobs>>
    /\ UNCHANGED <<candidate_profile, job_embedding, semantic_candidates,
                   confirmed_matches, evaluated, accepted>>

\* lines 434-470: one turn of the stage 1 loop; after the last job the
\* survivors are sorted
JobsEmbed ==
    /\ UNCHANGED <<rr_vars, df_vars, rt_vars, hy_vars, js_vars, pn_vars, cx_vars, ij_vars>>
    /\ jm_pc = "stage1"
    /\ \E out \in EmbeddingOutcomes :
        LET job == active_jobs[jm_idx]
            sim == Similarity(candidate_profile.embedding, out.vec)
            cands == IF sim.exc = "none" /\ PassesGate(sim.value)
                     THEN Append(semantic_candidates,
                                 [job |-> job, similarity |-> sim.value])
                     ELSE semantic_candidates
        IN  /\ job_embedding' = [job_embedding EXCEPT ![job] = out]
            /\ IF out.raises
               THEN /\ JobsReturnEmpty("APIError")
                    /\ UNCHANGED <<semantic_candidates, jm_idx>>
               ELSE IF sim.exc # "none"
               THEN /\ JobsReturnEmpty(sim.exc)
                    /\ UNCHANGED <<semantic_candidates, jm_idx>>
               ELSE IF jm_idx < Len(active_jobs)
               THEN /\ semantic_candidates' = cands
                    /\ jm_idx' = jm_idx + 1
                    /\ UNCHANGED <<top_matches, jm_pc, jm_error, jm_raised>>
               ELSE IF cands = << >>
               THEN /\ JobsReturnEmpty("none")
                    /\ semantic_candidates' = cands
                    /\ UNCHANGED jm_idx
               ELSE /\ semantic_candidates' = SortDesc(cands)
                    /\ jm_idx' = 1
                    /\ jm_pc' = "stage2"
                    /\ UNCHANGED <<top_matches, jm_error, jm_raised>>
    /\ UNCHANGED <<candidate_profile, active_jobs, confirmed_matches, evaluated,
                   accepted>>

\* lines 476-514: one turn of the stage 2 loop; after the last reviewed
\* candidate the confirmed matches are cut and returned
JobsEvaluate ==
    /\ UNCHANGED <<rr_vars, df_vars, rt_vars, hy_vars, js_vars, pn_vars, cx_vars, ij_vars>>
    /\ jm_pc = "stage2"
    /\ \E resp \in JudgmentResponses :
        LET candidate == Review(semantic_candidates)[jm_idx]
            evaluation == EvaluateJobMatchWithLlm(resp)
            confirmed == IF IsMatch(evaluation)
                         THEN Append(confirmed_matches, candidate)
                         ELSE confirmed_matches
        IN  /\ evaluated' = Append(evaluated, candidate.job)
            /\ accepted' = IF resp.kind = "object" /\ resp.is_match = "true"
                           THEN accepted \cup {candidate.job} ELSE accepted
            /\ confirmed_matches' = confirmed
            /\ IF LogRaises(evaluation)
               THEN JobsReturnEmpty("TypeError") /\ UNCHANGED jm_idx
               ELSE IF jm_idx < Len(Review(semantic_candidates))
               THEN /\ jm_idx' = jm_idx + 1
                    /\ UNCHANGED <<top_matches, jm_pc, jm_error, jm_raised>>
               ELSE /\ top_matches' = Top(confirmed)
                    /\ jm_pc' = "done"
                    /\ UNCHANGED <<jm_idx, jm_error, jm_raised>>
    /\ UNCHANGED <<candidate_profile, active_jobs, job_embedding, semantic_candidates>>

JobsNext == JobsStart \/ JobsEmbed \/ JobsEvaluate

(***************************************************************************)
(* JobPostingManager.update_job_status (src/insert_job_posting.py), called *)
(* at any time, also while match_candidate_to_jobs runs.                   *)
(***************************************************************************)
\* update({'status': status}).eq('job_id', job_id): the row of job_id, if
\* there is one, gets the status
UpdateStatus(table, job_id, status) ==
    [k \in DOMAIN table |-> IF k = job_id THEN status ELSE table[k]]

\* the update is executed, or the request raises and nothing is written
UpdateJobStatus(job_id, status) ==
    /\ UNCHANGED <<rr_vars, jm_vars, df_vars, rt_vars, hy_vars, pn_vars, cx_vars, ij_vars>>
    /\ status_updates < MaxUpdates
    /\ status_updates' = status_updates + 1
    /\ \/ job_status' = UpdateStatus(job_status, job_id, status)
       \/ UNCHANGED job_status

PostingsInit ==
    /\ candidate_profile \in CandidateRows
    /\ job_status \in SeqsUpTo(Statuses, MaxPostings)
    /\ status_updates = 0
    /\ active_jobs = << >>
    /\ job_embedding = [j \in Jobs |-> NoEmbedding]
    /\ semantic_candidates = << >>
    /\ confirmed_matches = << >>
    /\ top_matches = << >>
    /\ evaluated = << >>
    /\ accepted = {}
    /\ jm_idx = 0
    /\ jm_pc = "start"
    /\ jm_error = "none"
    /\ jm_raised = "none"

PostingsNext ==
    \/ \E job_id \in 1..MaxPostings, status \in Statuses :
          UpdateJobStatus(job_id, status)
    \/ JobsStart
    \/ JobsEmbed
    \/ JobsEvaluate

(***************************************************************************)
(* The two-pass diversity loop of process_candidate and regenerate_email   *)
(* (src/app_old.py).  A title is a sequence of characters.                 *)
(***************************************************************************)
UpperCase == <<"A", "B", "C", "D", "E", "F", "G", "H", "I", "J", "K", "L", "M",
               "N", "O", "P", "Q", "R", "S", "T", "U", "V", "W", "X", "Y", "Z">>
LowerCase == <<"a", "b", "c", "d", "e", "f", "g", "h", "i", "j", "k", "l", "m",
               "n", "o", "p", "q", "r", "s", "t", "u", "v", "w", "x", "y", "z">>

\* str.lower(), character by character
LowerNone(title) == title
LowerChar(ch) ==
    IF \E i \in DOMAIN UpperCase : UpperCase[i] = ch
    THEN LowerCase[CHOOSE i \in DOMAIN UpperCase : UpperCase[i] = ch]
    ELSE ch

Lower(title) == [i \in DOMAIN title |-> LowerChar(title[i])]

\* keyword in title_lower: substring test
Contains(text, keyword) ==
    \E i \in 0..(Len(text) - Len(keyword)) :
        SubSeq(text, i + 1, i + Len(keyword)) = keyword

generic_keywords ==
    << <<"c", "a", "r", "e", "e", "r">>,
       <<"t", "e", "a", "m">>,
       <<"c", "u", "l", "t", "u", "r", "e">>,
       <<"l", "i", "f", "e", " ", "a", "t">>,
       <<"m", "e", "e", "t", " ", "t", "h", "e", " ",
         "e", "n", "g", "i", "n", "e", "e", "r", "s">> >>

\* any(keyword in title_lower for keyword in generic_keywords)
IsGeneric(title) ==
    \E k \in DOMAIN generic_keywords : Contains(Lower(title), generic_keywords[k])

\* the matches the lists are drawn from: "API", "Go", "Mesh", "TEAM", "Steam"
BlogTitles ==
    << <<"A", "P", "I">>, <<"G", "o">>, <<"M", "e", "s", "h">>,
       <<"T", "E", "A", "M">>, <<"S", "t", "e", "a", "m">> >>

Matches == {[blog_id |-> i, blog_title |-> BlogTitles[i]] : i \in DOMAIN BlogTitles}

\* blog not in top_blogs: equality of the dicts
NotIn(blog, top) == \A i \in DOMAIN top : top[i] # blog

\* first pass (lines 335-341): the loop over what is left of blog_matches
RECURSIVE FirstPass(_, _)
FirstPass(rest, top) ==
    IF rest = << >> \/ Len(top) >= TargetCount THEN top
    ELSE IF ~IsGeneric(Head(rest).blog_title)
         THEN FirstPass(Tail(rest), Append(top, Head(rest)))
         ELSE FirstPass(Tail(rest), top)

\* second pass (lines 344-348)
RECURSIVE SecondPassFront(_, _)
SecondPassFront(rest, top) ==
    IF rest = << >> \/ Len(top) >= TargetCount THEN top
    ELSE IF NotIn(Head(rest), top)
         THEN SecondPassFront(Tail(rest), <<Head(rest)>> \o top)
         ELSE SecondPassFront(Tail(rest), top)

RECURSIVE SecondPass(_, _)
SecondPass(rest, top) ==
    IF rest = << >> \/ Len(top) >= TargetCount THEN top
    ELSE IF NotIn(Head(rest), top)
         THEN SecondPass(Tail(rest), Append(top, Head(rest)))
         ELSE SecondPass(Tail(rest), top)

\* lines 326-327 and 497-498: an empty list is answered with 404 before
\* the filter, which runs on the lists that hold a match
DiversityInit ==
    /\ blog_matches \in SeqsUpTo(Matches, MaxMatches) \ {<< >>}
    /\ top_blogs = << >>
    /\ df_pc = "first"

DiversityFirstPass ==
    /\ UNCHANGED <<rr_vars, jm_vars, rt_vars, hy_vars, js_vars, pn_vars, cx_vars, ij_vars>>
    /\ df_pc = "first"
    /\ top_blogs' = FirstPass(blog_matches, << >>)
    /\ df_pc' = "second"
    /\ UNCHANGED blog_matches

DiversitySecondPass ==
    /\ UNCHANGED <<rr_vars, jm_vars, rt_vars, hy_vars, js_vars, pn_vars, cx_vars, ij_vars>>
    /\ df_pc = "second"
    /\ top_blogs' = SecondPass(blog_matches, top_blogs)
    /\ df_pc' = "done"
    /\ UNCHANGED blog_matches

DiversityNext == DiversityFirstPass \/ DiversitySecondPass

(***************************************************************************)
(* find_blogs_for_candidate (src/match_candidates_to_blogs.py) and the     *)
(* search functions of the database it calls.                              *)
(***************************************************************************)
Chunks == 1..MaxChunks
BlogIds == 1..MaxBlogs

\* similarities of a passage to the query vector, in hundredths
Scores == {20, 30, 40}

NoCandidate == [found |-> FALSE, professional_summary_embedding |-> FALSE,
                embedding |-> FALSE]

\* the row of get_candidate_by_id: which of the two vectors it holds
CandidateProfiles ==
    {NoCandidate}
    \cup {[found |-> TRUE, professional_summary_embedding |-> a, embedding |-> b] :
            a \in BOOLEAN, b \in BOOLEAN}

\* lines 118-127: the professional summary embedding, else the legacy one
HasEmbeddingSummaryOnly(c) == c.professional_summary_embedding
HasEmbedding(c) == c.professional_summary_embedding \/ c.embedding

\* lines 130-133
FunctionNameChunks(dedup) == "search_blogs_for_candidate"
FunctionName(dedup) ==
    IF dedup THEN "search_top_blogs_for_candidate" ELSE "search_blogs_for_candidate"

\* lines 135-139: rpc_params (the embedding is the candidate's)
RpcParamsNoCount(threshold, count) ==
    [match_threshold |-> threshold, match_count |-> MaxChunks]
RpcParams(threshold, count) ==
    [match_threshold |-> threshold, match_count |-> count]

\* a list ranked by non-increasing similarity
Ranked(rows) ==
    \A i \in 1..(Len(rows) - 1) : rows[i].similarity >= rows[i + 1].similarity

\* every ranked list that holds each element of S once
Rankings(S) ==
    {r \in [1..Cardinality(S) -> S] : Range(r) = S /\ Ranked(r)}

\* the passage-level hits of the similarity search: passages above the threshold
PassageHits(ps, threshold) ==
    {[blog_id |-> ps[c].blog_id, chunk |-> c, similarity |-> ps[c].similarity] :
        c \in {d \in Chunks : ps[d].similarity >= threshold}}

\* search_top_blogs_for_candidate: one row per blog, a best passage of it
BestPerBlog(hits) ==
    {h \in hits :
        /\ \A g \in hits : g.blog_id = h.blog_id => g.similarity <= h.similarity
        /\ \A g \in hits : (g.blog_id = h.blog_id /\ g.similarity = h.similarity)
                               => h.chunk <= g.chunk}

\* the lists supabase.rpc(function_name, rpc_params) may return (ties in
\* similarity come in any order)
RpcResults(function_name, ps, threshold, count) ==
    LET hits == PassageHits(ps, threshold)
        rows == IF function_name = "search_top_blogs_for_candidate"
                THEN BestPerBlog(hits) ELSE hits
    IN  {Take(r, count) : r \in Rankings(rows)}

RetrieveInit ==
    /\ rt_candidate \in CandidateProfiles
    /\ passages \in [Chunks -> [blog_id : BlogIds, similarity : Scores]]
    /\ match_count \in 1..MaxBlogs
    /\ deduplicate \in BOOLEAN
    /\ found_blogs = << >>
    /\ rt_pc = "start"
    /\ rpc_calls = 0
    /\ rt_raised = "none"

\* except Exception as e (line 152): every exception of the body is caught
RetrieveCaught(exc) == TRUE

\* lines 110-127: a missing candidate and a missing embedding are logged and
\* answered with return []
RetrieveStart ==
    /\ UNCHANGED <<rr_vars, jm_vars, df_vars, hy_vars, js_vars, pn_vars, cx_vars, ij_vars>>
    /\ rt_pc = "start"
    /\ IF ~rt_candidate.found \/ ~HasEmbedding(rt_candidate)
       THEN found_blogs' = << >> /\ rt_pc' = "done"
       ELSE rt_pc' = "search" /\ UNCHANGED found_blogs
    /\ UNCHANGED <<rt_candidate, passages, match_count, deduplicate, rpc_calls,
                   rt_raised>>

\* lines 129-154: the rpc raises (caught, []) or returns its rows
RetrieveSearch ==
    /\ UNCHANGED <<rr_vars, jm_vars, df_vars, hy_vars, js_vars, pn_vars, cx_vars, ij_vars>>
    /\ rt_pc = "search"
    /\ rpc_calls' = rpc_calls + 1
    /\ \/ /\ found_blogs' = << >>
          /\ rt_raised' = IF RetrieveCaught("APIError") THEN "none" ELSE "APIError"
       \/ /\ LET rpc_params == RpcParams(BlogThresholdPct, match_count) IN
             \E data \in RpcResults(FunctionName(deduplicate), passages,
                                     rpc_params.match_threshold,
                                     rpc_params.match_count) :
                found_blogs' = data
          /\ UNCHANGED rt_raised
    /\ rt_pc' = "done"
    /\ UNCHANGED <<rt_candidate, passages, match_count, deduplicate>>

RetrieveNext == RetrieveStart \/ RetrieveSearch

(***************************************************************************)
(* PinnedBlogManager (src/manage_pinned_blogs.py) on the row of the        *)
(* candidate the retriever serves.  A blog URL is written as the id of its *)
(* blog post.  Each call reads the row, changes the list and writes it;    *)
(* a call for a candidate that is not found returns without a write.       *)
(***************************************************************************)
\* list.remove(x): the list without the first occurrence of x
RECURSIVE ListRemove(_, _)
ListRemove(list, x) ==
    IF list = << >> THEN << >>
    ELSE IF Head(list) = x THEN Tail(list)
         ELSE <<Head(list)>> \o ListRemove(Tail(list), x)

\* the processes that call the manager (one command line each)
PinCallers == 1..MaxPinCallers

\* a caller that has made no call yet; result is read only after a return
NoCall == [pc |-> "idle", op |-> "none", url |-> 0, current_pinned |-> << >>,
           result |-> FALSE]

\* a call between its select and its update: current_pinned is the list
\* it will write
Selected(op, blog_url, current_pinned) ==
    [pc |-> "selected", op |-> op, url |-> blog_url,
     current_pinned |-> current_pinned, result |-> FALSE]

\* a call that has returned
Returned(op, blog_url, result) ==
    [pc |-> "done", op |-> op, url |-> blog_url, current_pinned |-> << >>,
     result |-> result]

\* lines 30-46: the row of the candidate, or None when the select finds no
\* row or raises
GetCandidatePinnedBlogs(found, stored) ==
    {[found |-> FALSE, pinned_blogs |-> << >>]} \cup
    (IF found THEN {[found |-> TRUE, pinned_blogs |-> stored]} ELSE {})

\* blog_url in current_pinned (line 59), blog_url not in current_pinned
\* (line 92)
InPinnedNever(blog_url, current_pinned) == FALSE
InPinned(blog_url, current_pinned) == blog_url \in Range(current_pinned)

PinsInit ==
    /\ pinned_blogs = << >>
    /\ pin_ops = 0
    /\ pin_calls = [c \in PinCallers |-> NoCall]

\* a candidate whose pinned list holds any URLs, none of them twice
PinsInitAny ==
    /\ pinned_blogs \in {l \in SeqsUpTo(BlogIds, MaxBlogs) : NoRepeats(l)}
    /\ pin_ops = 0
    /\ pin_calls = [c \in PinCallers |-> NoCall]

\* lines 50-64: add_pinned_blog reads the row, returns False for a missing
\* candidate or a URL already in the list read, else appends to that list
AddPinnedBlogSelect(c, blog_url) ==
    /\ UNCHANGED <<rr_vars, jm_vars, df_vars, rt_vars, hy_vars, js_vars, cx_vars, ij_vars>>
    /\ pin_calls[c].pc \in {"idle", "done"}
    /\ pin_ops < MaxPinOps
    /\ pin_ops' = pin_ops + 1
    /\ \E candidate \in GetCandidatePinnedBlogs(rt_candidate.found, pinned_blogs) :
          pin_calls' = [pin_calls EXCEPT ![c] =
              IF ~candidate.found \/ InPinned(blog_url, candidate.pinned_blogs)
              THEN Returned("add", blog_url, FALSE)
              ELSE Selected("add", blog_url,
                            Append(candidate.pinned_blogs, blog_url))]
    /\ UNCHANGED pinned_blogs

\* lines 66-79: the update writes the list computed from what was read and
\* the call returns True, or the update raises and the call returns False
AddPinnedBlogUpdate(c) ==
    /\ UNCHANGED <<rr_vars, jm_vars, df_vars, rt_vars, hy_vars, js_vars, cx_vars, ij_vars>>
    /\ pin_calls[c].pc = "selected" /\ pin_calls[c].op = "add"
    /\ \/ /\ pinned_blogs' = pin_calls[c].current_pinned
          /\ pin_calls' = [pin_calls EXCEPT ![c] = Returned("add", @.url, TRUE)]
       \/ /\ pin_calls' = [pin_calls EXCEPT ![c] = Returned("add", @.url, FALSE)]
          /\ UNCHANGED pinned_blogs
    /\ UNCHANGED pin_ops

\* lines 83-97: remove_pinned_blog reads the row, returns False for a
\* missing candidate or a URL not in the list read, else removes it from
\* that list
RemovePinnedBlogSelect(c, blog_url) ==
    /\ UNCHANGED <<rr_vars, jm_vars, df_vars, rt_vars, hy_vars, js_vars, cx_vars, ij_vars>>
    /\ pin_calls[c].pc \in {"idle", "done"}
    /\ pin_ops < MaxPinOps
    /\ pin_ops' = pin_ops + 1
    /\ \E candidate \in GetCandidatePinnedBlogs(rt_candidate.found, pinned_blogs) :
          pin_calls' = [pin_calls EXCEPT ![c] =
              IF ~candidate.found \/ ~InPinned(blog_url, candidate.pinned_blogs)
              THEN Returned("remove", blog_url, FALSE)
              ELSE Selected("remove", blog_url,
                            ListRemove(candidate.pinned_blogs, blog_url))]
    /\ UNCHANGED pinned_blogs

\* lines 99-112
RemovePinnedBlogUpdate(c) ==
    /\ UNCHANGED <<rr_vars, jm_vars, df_vars, rt_vars, hy_vars, js_vars, cx_vars, ij_vars>>
    /\ pin_calls[c].pc = "selected" /\ pin_calls[c].op = "remove"
    /\ \/ /\ pinned_blogs' = pin_calls[c].current_pinned
          /\ pin_calls' = [pin_calls EXCEPT ![c] = Returned("remove", @.url, TRUE)]
       \/ /\ pin_calls' = [pin_calls EXCEPT ![c] = Returned("remove", @.url, FALSE)]
          /\ UNCHANGED pinned_blogs
    /\ UNCHANGED pin_ops

\* lines 142-145: clear_all_pinned_blogs reads the row and returns False
\* for a missing candidate
ClearAllPinnedBlogsSelect(c) ==
    /\ UNCHANGED <<rr_vars, jm_vars, df_vars, rt_vars, hy_vars, js_vars, cx_vars, ij_vars>>
    /\ pin_calls[c].pc \in {"idle", "done"}
    /\ pin_ops < MaxPinOps
    /\ pin_ops' = pin_ops + 1
    /\ \E candidate \in GetCandidatePinnedBlogs(rt_candidate.found, pinned_blogs) :
          pin_calls' = [pin_calls EXCEPT ![c] =
              IF ~candidate.found
              THEN Returned("clear", 0, FALSE)
              ELSE Selected("clear", 0, << >>)]
    /\ UNCHANGED pinned_blogs

\* lines 147-158: the update writes the empty list
ClearAllPinnedBlogsUpdate(c) ==
    /\ UNCHANGED <<rr_vars, jm_vars, df_vars, rt_vars, hy_vars, js_vars, cx_vars, ij_vars>>
    /\ pin_calls[c].pc = "selected" /\ pin_calls[c].op = "clear"
    /\ \/ /\ pinned_blogs' = pin_calls[c].current_pinned
          /\ pin_calls' = [pin_calls EXCEPT ![c] = Returned("clear", @.url, TRUE)]
       \/ /\ pin_calls' = [pin_calls EXCEPT ![c] = Returned("clear", @.url, FALSE)]
          /\ UNCHANGED pinned_blogs
    /\ UNCHANGED pin_ops

\* the calls of one caller, each from its select to its return
PinCall(c) ==
    \/ \E blog_url \in BlogIds : AddPinnedBlogSelect(c, blog_url)
    \/ AddPinnedBlogUpdate(c)
    \/ \E blog_url \in BlogIds : RemovePinnedBlogSelect(c, blog_url)
    \/ RemovePinnedBlogUpdate(c)
    \/ ClearAllPinnedBlogsSelect(c)
    \/ ClearAllPinnedBlogsUpdate(c)

\* the callers of the manager, in any interleaving, beside the retriever
PinnedNext ==
    \/ \E c \in PinCallers : PinCall(c)
    \/ RetrieveStart
    \/ RetrieveSearch

\* the caller whose calls are made one after the other
SequentialCaller == 1

\* the calls of the manager alone, one after the other
PinsNext == PinCall(SequentialCaller)

(***************************************************************************)
(* update_context (src/app.py), the handler of /api/update-context.  The   *)
(* handler reads the candidate, builds the new text from the text it read, *)
(* asks for the embedding of the new text and writes both; requests are    *)
(* served concurrently, so the steps of two requests interleave.  A text   *)
(* is the list of its paragraphs.                                          *)
(***************************************************************************)
Requests == 1..MaxRequests

Procs == 1..MaxProcs

Fields == {"professional_summary", "job_preferences", "interests"}

\* the paragraph the profile was created with
OriginalParagraph == [stamp |-> "", context |-> 0]

\* f"{existing_content}\n\n[Updated {timestamp}] {additional_context}", or
\* f"[{timestamp}] {additional_context}" when there is no existing content
UpdatedContent(existing_content, additional_context) ==
    IF existing_content # << >>
    THEN Append(existing_content,
                [stamp |-> "[Updated timestamp] ", context |-> additional_context])
    ELSE <<[stamp |-> "[timestamp] ", context |-> additional_context]>>

\* the additional_context of request r
ContextOf(r) == r

\* embeddings.create(input=text).data[0].embedding: the vector of a text,
\* written as the text it was made from
GenerateEmbedding(text) == [input |-> text]

\* line 1101: input=updated_content
EmbeddingInputContextOnly(updated_content, additional_context) ==
    <<[stamp |-> "[timestamp] ", context |-> additional_context]>>
EmbeddingInput(updated_content, additional_context) == updated_content

\* line 1058: section not in ['job_preferences', 'interests']
ValidSectionAny(section) == TRUE
ValidSection(section) == section \in {"job_preferences", "interests"}

\* lines 1071-1078: the column of the section
FieldName(section) ==
    IF section = "job_preferences" THEN "job_preferences" ELSE "interests"

\* the columns of a profile that has no row of candidate_embeddings
NoText == [f \in Fields |-> << >>]

\* the texts a profile starts with: no job preferences yet
InitialText ==
    [f \in Fields |-> IF f = "job_preferences" THEN << >> ELSE <<OriginalParagraph>>]

\* a column of candidate_embeddings that holds no vector (NULL)
NullEmbedding == [null |-> TRUE]

\* the columns embedding_text and embedding of a row
LegacyColumns(embedding_text, embedding) ==
    [embedding_text |-> embedding_text, embedding |-> embedding]

\* a row of candidate_embeddings holding the texts and their embeddings
EmbeddingRow(profile_id, text) ==
    [candidate_profile_id |-> profile_id,
     text |-> text,
     embedding |-> [f \in Fields |-> GenerateEmbedding(text[f])],
     legacy |-> LegacyColumns(text["professional_summary"],
                              GenerateEmbedding(text["professional_summary"]))]

\* get_candidate_by_id: the rows the RPC can put first, a profile joined
\* with a row of its embeddings, or with empty columns when it has none
GetCandidateById(profiles, embeddings) ==
    {[profile_id |-> embeddings[k].candidate_profile_id, text |-> embeddings[k].text] :
        k \in {i \in DOMAIN embeddings :
                 embeddings[i].candidate_profile_id \in Range(profiles)}}
    \cup {[profile_id |-> id, text |-> NoText] :
            id \in {i \in Range(profiles) :
                      \A k \in DOMAIN embeddings :
                          embeddings[k].candidate_profile_id # i}}

\* update(update_data).eq('candidate_profile_id', profile_id): every row of
\* the profile gets the text and the embedding of the field
UpdateField(embeddings, profile_id, field_name, content, embedding) ==
    [k \in DOMAIN embeddings |->
        IF embeddings[k].candidate_profile_id = profile_id
        THEN [embeddings[k] EXCEPT !.text[field_name] = content,
                                   !.embedding[field_name] = embedding]
        ELSE embeddings[k]]

\* the store before the requests: no row of the candidate, or one profile
\* with its row of embeddings
StoreInit ==
    \/ candidate_profiles = << >> /\ candidate_embeddings = << >>
    \/ /\ candidate_profiles = <<1>>
       /\ candidate_embeddings = <<EmbeddingRow(1, InitialText)>>

\* lines 1049-1054: what the body of a request is to the handler.  An
\* object holds candidate_id and additional_context; an incomplete body is
\* empty or lacks one of the two; a raising body makes request.json raise
\* (no JSON, another content type) or is an array or a string that holds
\* the two names, so that data['candidate_id'] raises
RequestBodies == {"object", "incomplete", "raising"}

\* an update-context request that is not made
NoRequest == [pc |-> "idle", key_ok |-> FALSE, body |-> "incomplete",
              section |-> "interests", profile_id |-> 0,
              existing_content |-> << >>, status |-> 0]

\* a process-candidate request that is not made
NoProc == [pc |-> "idle", kind |-> "summaries", skip_existing |-> FALSE,
           existing |-> << >>, profile_id |-> 0,
           embedding_exists |-> FALSE, result |-> "none"]

\* a regenerate-email request that is not made
NoRegen == [pc |-> "idle", profile_id |-> 0, written |-> FALSE, status |-> 0]

ContextInit ==
    /\ StoreInit
    /\ regen = [NoRegen EXCEPT !.pc = "new"]
    /\ requests \in [Requests -> [pc : {"new"}, key_ok : BOOLEAN,
                                  body : RequestBodies,
                                  section : Fields, profile_id : {0},
                                  existing_content : {<< >>}, status : {0}]]
    /\ procs = [p \in Procs |-> NoProc]

\* the request ends with the given HTTP status
Respond(r, status) ==
    requests' = [requests EXCEPT ![r].pc = "done", ![r].status = status]

\* lines 1043-1078 and 1136-1138: authentication (401), the body (an
\* exception raised while it is read goes to the outer except: 500; an
\* incomplete one: 400), the section (400), the candidate (None when there
\* is no row or the RPC fails: 404), the existing content of the section
ContextRead(r) ==
    /\ UNCHANGED <<rr_vars, jm_vars, df_vars, rt_vars, hy_vars, js_vars, pn_vars, ij_vars>>
    /\ requests[r].pc = "new"
    /\ IF ~requests[r].key_ok THEN Respond(r, 401)
       ELSE IF requests[r].body = "raising" THEN Respond(r, 500)
       ELSE IF requests[r].body = "incomplete" THEN Respond(r, 400)
       ELSE IF ~ValidSection(requests[r].section) THEN Respond(r, 400)
       ELSE \/ Respond(r, 404)
            \/ \E found \in GetCandidateById(candidate_profiles, candidate_embeddings) :
                  requests' = [requests EXCEPT
                      ![r].pc = "read",
                      ![r].profile_id = found.profile_id,
                      ![r].existing_content =
                          found.text[FieldName(requests[r].section)]]
    /\ UNCHANGED <<candidate_profiles, candidate_embeddings, procs, regen>>

\* lines 1080-1135: the new text, its embedding (the call may raise: 500,
\* nothing written), the update of the text and the embedding
ContextWrite(r) ==
    /\ UNCHANGED <<rr_vars, jm_vars, df_vars, rt_vars, hy_vars, js_vars, pn_vars, ij_vars>>
    /\ requests[r].pc = "read"
    /\ LET field_name == FieldName(requests[r].section)
           updated_content == UpdatedContent(requests[r].existing_content, ContextOf(r))
           updated_embedding ==
               GenerateEmbedding(EmbeddingInput(updated_content, ContextOf(r)))
       IN  \/ /\ candidate_embeddings' =
                     UpdateField(candidate_embeddings, requests[r].profile_id,
                                 field_name, updated_content, updated_embedding)
              /\ Respond(r, 200)
           \/ /\ Respond(r, 500)
              /\ UNCHANGED candidate_embeddings
    /\ UNCHANGED <<candidate_profiles, procs, regen>>

(***************************************************************************)
(* regenerate_email (src/app_old.py), the handler of /api/regenerate-email: *)
(* it reads the candidate, makes an updated summary and writes it and its  *)
(* embedding to the columns embedding_text and embedding of the rows of    *)
(* the profile, then matches blogs and writes the email (both read-only).  *)
(***************************************************************************)
\* line 459: the summary the completion returns
CompletionSummary == <<[stamp |-> "completion", context |-> 0]>>

\* line 463: f"{previous_summary} {additional_context}", after a failed
\* completion
FallbackSummary == <<[stamp |-> "previous_summary", context |-> 0]>>

\* lines 479-482: update({embedding, embedding_text}) of the rows of the
\* profile; the three texts and their embeddings stay
UpdateLegacy(embeddings, profile_id, embedding_text, embedding) ==
    [k \in DOMAIN embeddings |->
        IF embeddings[k].candidate_profile_id = profile_id
        THEN [embeddings[k] EXCEPT !.legacy = LegacyColumns(embedding_text, embedding)]
        ELSE embeddings[k]]

\* lines 396-420 and 553-555: authentication (401), the body (400, or 500
\* from the outer except when reading it raises), the candidate (404 when
\* there is no row or the RPC fails)
RegenerateRead ==
    /\ UNCHANGED <<rr_vars, jm_vars, df_vars, rt_vars, hy_vars, js_vars, pn_vars, ij_vars>>
    /\ regen.pc = "new"
    /\ \/ \E status \in {401, 400, 404, 500} :
             regen' = [regen EXCEPT !.pc = "done", !.status = status]
       \/ \E found \in GetCandidateById(candidate_profiles, candidate_embeddings) :
             regen' = [regen EXCEPT !.pc = "read", !.profile_id = found.profile_id]
    /\ UNCHANGED <<candidate_profiles, candidate_embeddings, requests, procs>>

\* lines 421-485: the updated summary (the completion's, or the fallback
\* text), its embedding and the update of the rows of the profile; a
\* raising embedding call, a row without the key id or a raising update is
\* logged and nothing is written.  The request is not answered yet.
RegenerateWrite ==
    /\ UNCHANGED <<rr_vars, jm_vars, df_vars, rt_vars, hy_vars, js_vars, pn_vars, ij_vars>>
    /\ regen.pc = "read"
    /\ \/ /\ \E updated_summary \in {CompletionSummary, FallbackSummary} :
                candidate_embeddings' =
                    UpdateLegacy(candidate_embeddings, regen.profile_id,
                                 updated_summary,
                                 GenerateEmbedding(updated_summary))
          /\ regen' = [NoRegen EXCEPT !.pc = "updated", !.written = TRUE]
       \/ /\ regen' = [NoRegen EXCEPT !.pc = "updated"]
          /\ UNCHANGED candidate_embeddings
    /\ UNCHANGED <<candidate_profiles, requests, procs>>

\* lines 487-555: the blog matches (an RPC for the candidate and one for
\* the blogs), the diversity filter, the completions of the email and the
\* answer: 200, 404 (no blog matches) or 500 (an exception of these steps
\* in the outer except); nothing is written
RegenerateAnswer ==
    /\ UNCHANGED <<rr_vars, jm_vars, df_vars, rt_vars, hy_vars, js_vars, pn_vars, ij_vars>>
    /\ regen.pc = "updated"
    /\ \E status \in {200, 404, 500} :
          regen' = [regen EXCEPT !.pc = "done", !.status = status]
    /\ UNCHANGED <<candidate_profiles, candidate_embeddings, requests, procs>>

ContextNext ==
    \/ \E r \in Requests : ContextRead(r) \/ ContextWrite(r)
    \/ RegenerateRead
    \/ RegenerateWrite
    \/ RegenerateAnswer

(***************************************************************************)
(* vectorize_candidate_summaries (src/app.py), step 3 of the handler of    *)
(* /api/process-candidate, with save_candidate_profile                     *)
(* (src/vectorize_candidates.py), and vectorize_candidate with             *)
(* save_candidate_embedding (src/vectorize_candidates.py), the writer of   *)
(* the handler of src/app_old.py and of the command line.  Each save       *)
(* selects the rows and then updates or inserts; requests are served       *)
(* concurrently, so the steps of two requests and of update_context        *)
(* interleave.                                                             *)
(***************************************************************************)
\* the writers of candidate_embeddings: vectorize_candidate_summaries and
\* vectorize_candidate
Kinds == {"summaries", "legacy"}

\* the three summaries of request p
Summaries(p) == [f \in Fields |-> <<[stamp |-> "summary", context |-> p]>>]

\* the update, or the insert, of lines 219-246: the three texts and the
\* three embeddings in one row
SummaryRow(profile_id, summaries, embeddings) ==
    [candidate_profile_id |-> profile_id, text |-> summaries, embedding |-> embeddings,
     legacy |-> LegacyColumns(summaries["professional_summary"],
                              embeddings["professional_summary"])]

\* format_profile_for_embedding: the one text vectorize_candidate embeds
ProfileText(p) == <<[stamp |-> "profile", context |-> p]>>

\* save_candidate_embedding, lines 368-373: the inserted row holds the
\* columns embedding_text and embedding, the three texts and their
\* embeddings are NULL
LegacyRow(profile_id, embedding_text, embedding) ==
    [candidate_profile_id |-> profile_id, text |-> NoText,
     embedding |-> [f \in Fields |-> NullEmbedding],
     legacy |-> LegacyColumns(embedding_text, embedding)]

\* the request ends: the writer returns result and its locals are gone
Return(p, result) ==
    procs' = [procs EXCEPT ![p] = [NoProc EXCEPT !.pc = "done",
                                                 !.kind = procs[p].kind,
                                                 !.skip_existing = procs[p].skip_existing,
                                                 !.result = result]]

\* the requests differ in nothing but their number, so they are numbered
\* writer by writer: vectorize_candidate with skip_existing, then without,
\* then vectorize_candidate_summaries
WriterRank(proc) ==
    IF proc.kind = "legacy" THEN (IF proc.skip_existing THEN 1 ELSE 2) ELSE 3

\* the process-candidate requests and one update-context request on a
\* section, all of them for the same candidate
ProfileInit ==
    /\ StoreInit
    /\ regen = NoRegen
    /\ \E section \in {"job_preferences", "interests"} :
          requests = [r \in Requests |->
                        IF r = 1
                        THEN [NoRequest EXCEPT !.pc = "new", !.key_ok = TRUE,
                                               !.body = "object",
                                               !.section = section]
                        ELSE NoRequest]
    /\ procs \in {ps \in [Procs -> [pc : {"new"}, kind : Kinds,
                                     skip_existing : BOOLEAN,
                                     existing : {<< >>}, profile_id : {0},
                                     embedding_exists : {FALSE},
                                     result : {"none"}]] :
                      /\ \A p \in Procs :
                            ps[p].kind = "summaries" => ~ps[p].skip_existing
                      /\ \A p, q \in Procs :
                            p < q => WriterRank(ps[p]) <= WriterRank(ps[q])}

\* save_candidate_profile, lines 290-295: the rows of the candidate_id; a
\* failing select is caught, None is returned and the request ends
SaveProfileSelect(p) ==
    /\ UNCHANGED <<rr_vars, jm_vars, df_vars, rt_vars, hy_vars, js_vars, pn_vars, ij_vars>>
    /\ procs[p].pc = "new"
    /\ \/ procs' = [procs EXCEPT ![p].pc = "profile_selected",
                                 ![p].existing = candidate_profiles]
       \/ Return(p, FALSE)
    /\ UNCHANGED <<candidate_profiles, candidate_embeddings, requests, regen>>

\* save_candidate_profile, lines 297-345: update of the first row found, or
\* insert of a new row, whose key is the profile_id
SaveProfileWrite(p) ==
    /\ UNCHANGED <<rr_vars, jm_vars, df_vars, rt_vars, hy_vars, js_vars, pn_vars, ij_vars>>
    /\ procs[p].pc = "profile_selected"
    /\ \/ /\ procs[p].existing # << >>
          /\ procs' = [procs EXCEPT ![p].pc = "profile_saved",
                                    ![p].profile_id = procs[p].existing[1]]
          /\ UNCHANGED candidate_profiles
       \/ /\ procs[p].existing = << >>
          /\ LET id == Len(candidate_profiles) + 1 IN
             /\ candidate_profiles' = Append(candidate_profiles, id)
             /\ procs' = [procs EXCEPT ![p].pc = "profile_saved",
                                       ![p].profile_id = id]
       \/ /\ Return(p, FALSE)
          /\ UNCHANGED candidate_profiles
    /\ UNCHANGED <<candidate_embeddings, requests, regen>>

\* lines 196-217: the three embeddings, then the rows of the profile_id in
\* candidate_embeddings; an exception ends the request with False
VectorizeSelect(p) ==
    /\ UNCHANGED <<rr_vars, jm_vars, df_vars, rt_vars, hy_vars, js_vars, pn_vars, ij_vars>>
    /\ procs[p].pc = "profile_saved"
    /\ procs[p].kind = "summaries"
    /\ \/ procs' = [procs EXCEPT
                      ![p].pc = "embedding_selected",
                      ![p].embedding_exists =
                          \E k \in DOMAIN candidate_embeddings :
                              candidate_embeddings[k].candidate_profile_id =
                                  procs[p].profile_id]
       \/ Return(p, FALSE)
    /\ UNCHANGED <<candidate_profiles, candidate_embeddings, requests, regen>>

\* lines 219-253: update of the rows of the profile_id, or insert of a row
VectorizeWrite(p) ==
    /\ UNCHANGED <<rr_vars, jm_vars, df_vars, rt_vars, hy_vars, js_vars, pn_vars, ij_vars>>
    /\ procs[p].pc = "embedding_selected"
    /\ LET profile_id == procs[p].profile_id
           summaries == Summaries(p)
           embeddings == [f \in Fields |-> GenerateEmbedding(summaries[f])]
       IN  \/ /\ procs[p].embedding_exists
              /\ candidate_embeddings' =
                     [k \in DOMAIN candidate_embeddings |->
                        IF candidate_embeddings[k].candidate_profile_id = profile_id
                        THEN SummaryRow(profile_id, summaries, embeddings)
                        ELSE candidate_embeddings[k]]
              /\ Return(p, TRUE)
           \/ /\ ~procs[p].embedding_exists
              /\ candidate_embeddings' =
                     Append(candidate_embeddings,
                            SummaryRow(profile_id, summaries, embeddings))
              /\ Return(p, TRUE)
           \/ /\ Return(p, FALSE)
              /\ UNCHANGED candidate_embeddings
    /\ UNCHANGED <<candidate_profiles, requests, regen>>

\* vectorize_candidate, lines 411-420: with skip_existing the rows of the
\* profile_id are selected and the call returns True when there is one; an
\* exception ends the call with False
SkipExistingSelect(p) ==
    /\ UNCHANGED <<rr_vars, jm_vars, df_vars, rt_vars, hy_vars, js_vars, pn_vars, ij_vars>>
    /\ procs[p].pc = "profile_saved"
    /\ procs[p].kind = "legacy"
    /\ procs[p].skip_existing
    /\ \/ IF \E k \in DOMAIN candidate_embeddings :
                 candidate_embeddings[k].candidate_profile_id = procs[p].profile_id
          THEN Return(p, TRUE)
          ELSE procs' = [procs EXCEPT ![p].pc = "not_skipped"]
       \/ Return(p, FALSE)
    /\ UNCHANGED <<candidate_profiles, candidate_embeddings, requests, regen>>

\* vectorize_candidate, lines 422-430, and save_candidate_embedding, lines
\* 349-357: the embedding of the profile text, then the rows of the
\* profile_id in candidate_embeddings; an exception ends the call with False
SaveEmbeddingSelect(p) ==
    /\ UNCHANGED <<rr_vars, jm_vars, df_vars, rt_vars, hy_vars, js_vars, pn_vars, ij_vars>>
    /\ procs[p].kind = "legacy"
    /\ \/ procs[p].pc = "profile_saved" /\ ~procs[p].skip_existing
       \/ procs[p].pc = "not_skipped"
    /\ \/ procs' = [procs EXCEPT
                      ![p].pc = "legacy_selected",
                      ![p].embedding_exists =
                          \E k \in DOMAIN candidate_embeddings :
                              candidate_embeddings[k].candidate_profile_id =
                                  procs[p].profile_id]
       \/ Return(p, FALSE)
    /\ UNCHANGED <<candidate_profiles, candidate_embeddings, requests, regen>>

\* save_candidate_embedding, lines 359-383: update of the columns
\* embedding_text and embedding in the rows of the profile_id, or insert of
\* a row holding only them
SaveEmbeddingWrite(p) ==
    /\ UNCHANGED <<rr_vars, jm_vars, df_vars, rt_vars, hy_vars, js_vars, pn_vars, ij_vars>>
    /\ procs[p].pc = "legacy_selected"
    /\ LET profile_id == procs[p].profile_id
           embedding_text == ProfileText(p)
           embedding == GenerateEmbedding(embedding_text)
       IN  \/ /\ procs[p].embedding_exists
              /\ candidate_embeddings' =
                     [k \in DOMAIN candidate_embeddings |->
                        IF candidate_embeddings[k].candidate_profile_id = profile_id
                        THEN [candidate_embeddings[k] EXCEPT
                                !.legacy = LegacyColumns(embedding_text, embedding)]
                        ELSE candidate_embeddings[k]]
              /\ Return(p, TRUE)
           \/ /\ ~procs[p].embedding_exists
              /\ candidate_embeddings' =
                     Append(candidate_embeddings,
                            LegacyRow(profile_id, embedding_text, embedding))
              /\ Return(p, TRUE)
           \/ /\ Return(p, FALSE)
              /\ UNCHANGED candidate_embeddings
    /\ UNCHANGED <<candidate_profiles, requests, regen>>

ProfileNext ==
    \/ \E r \in Requests : ContextRead(r) \/ ContextWrite(r)
    \/ \E p \in Procs : \/ SaveProfileSelect(p)
                        \/ SaveProfileWrite(p)
                        \/ VectorizeSelect(p)
                        \/ VectorizeWrite(p)
                        \/ SkipExistingSelect(p)
                        \/ SaveEmbeddingSelect(p)
                        \/ SaveEmbeddingWrite(p)

(***************************************************************************)
(* find_blogs_for_candidate_hybrid (src/match_candidates_to_blogs.py):     *)
(* step 1 is find_blogs_for_candidate with deduplicate=True, step 2 is     *)
(* select_best_blogs_with_llm on the list step 1 returned.                 *)
(***************************************************************************)
\* longest index list the LLM returns to the hybrid selection
MaxHybridResp == 2

\* the completions of step 2: an error, prose, null, or an unfenced array
HybridCompletions ==
    {[raises |-> TRUE, open |-> "", close |-> "",
      body |-> [kind |-> "prose", items |-> << >>]]}
    \cup {[raises |-> FALSE, open |-> "", close |-> "", body |-> b] :
            b \in {[kind |-> "prose", items |-> << >>],
                   [kind |-> "null", items |-> << >>]}
                  \cup {[kind |-> "array", items |-> s] :
                          s \in SeqsUpTo(Items, MaxHybridResp)}}

\* the list handed to select_best_blogs_with_llm, after the call: the
\* function enumerates, indexes and slices the list and makes no call that
\* changes it
BlogsAfterSelectTruncated(bs, n) == Take(bs, n)
BlogsAfterSelect(bs, n) == bs

\* select_best_blogs_with_llm as one call: the list it returns (or the
\* exception it raises) and the completions it requested
SelectBestBlogsWithLlm(bs, n, rows, c) ==
    IF ShortCircuit(bs, n) THEN [exc |-> "none", value |-> bs, calls |-> 0]
    ELSE IF BuildPrompt(rows) # "none"
    THEN IF Caught(BuildPrompt(rows))
         THEN [exc |-> "none", value |-> Fallback(bs, n), calls |-> 0]
         ELSE [exc |-> BuildPrompt(rows), value |-> << >>, calls |-> 0]
    ELSE LET r == TryBody(bs, n, c) IN
         IF r.exc = "none" THEN [exc |-> "none", value |-> r.value, calls |-> 1]
         ELSE IF Caught(r.exc)
              THEN [exc |-> "none", value |-> Fallback(bs, n), calls |-> 1]
              ELSE [exc |-> r.exc, value |-> << >>, calls |-> 1]

\* the tables of the hybrid runs: passage c belongs to blog post
\* ((c - 1) mod MaxBlogs) + 1
HybridPassages ==
    {ps \in [Chunks -> [blog_id : BlogIds, similarity : Scores]] :
        \A c \in Chunks : ps[c].blog_id = ((c - 1) % MaxBlogs) + 1}

HybridInit ==
    /\ final_n_llm \in 1..MaxFinal
    /\ hy_selected = << >>
    /\ hy_llm_calls = 0
    /\ hy_pc = "step1"

\* lines 263-294, after find_blogs_for_candidate returned: no blogs, return
\* []; the candidate is fetched again and, when that fails, the first
\* final_n_llm blogs are returned; else the LLM selects.  An exception
\* escaping step 2 is caught by the outer except, which returns [].
HybridStep2 ==
    /\ UNCHANGED <<rr_vars, jm_vars, df_vars, js_vars, pn_vars, cx_vars, ij_vars>>
    /\ UNCHANGED <<rt_candidate, passages, match_count, deduplicate, rt_pc,
                   rpc_calls, rt_raised>>
    /\ hy_pc = "step1"
    /\ rt_pc = "done"
    /\ IF found_blogs = << >>
       THEN hy_selected' = << >> /\ UNCHANGED <<hy_llm_calls, found_blogs>>
       ELSE \/ /\ hy_selected' = Take(found_blogs, final_n_llm)
               /\ UNCHANGED <<hy_llm_calls, found_blogs>>
            \/ \E rows \in PromptRows,
                  c \in (IF ShortCircuit(found_blogs, final_n_llm)
                          THEN {NoCompletion} ELSE HybridCompletions) :
                  LET r == SelectBestBlogsWithLlm(found_blogs, final_n_llm, rows, c) IN
                  /\ hy_selected' = IF r.exc = "none" THEN r.value ELSE << >>
                  /\ hy_llm_calls' = hy_llm_calls + r.calls
                  /\ found_blogs' = BlogsAfterSelect(found_blogs, final_n_llm)
    /\ hy_pc' = "done"
    /\ UNCHANGED final_n_llm

HybridNext == RetrieveStart \/ RetrieveSearch \/ HybridStep2

(***************************************************************************)
(* JobPostingManager.insert_job_posting (src/insert_job_posting.py).  The  *)
(* row of job_id k is row k of the table; a new posting gets the next id.  *)
(***************************************************************************)
\* the job_data documents of the calls
JobData == {"v1", "v2"}

\* extract_job_fields plus job_id: the content columns; no status key
ExtractedFields(job_data, job_id) == [job_id |-> job_id, content |-> job_data]

\* update(extracted_fields).eq('id', pk): the columns named by the fields
\* are written, the status column is not among them
UpdateRowActive(row, fields) == [status |-> "active", content |-> fields.content]
UpdateRow(row, fields) == [status |-> row.status, content |-> fields.content]

\* extracted_fields['status'] = 'active', then insert(extracted_fields)
InsertRow(fields) == [status |-> "active", content |-> fields.content]

\* select('id').eq('job_id', job_id): the primary keys of the rows found
SelectJobId(table, job_id) == IF job_id \in DOMAIN table THEN <<job_id>> ELSE << >>

InsertInit ==
    /\ job_status \in SeqsUpTo(Statuses, MaxPostings)
    /\ job_content \in [DOMAIN job_status -> JobData]
    /\ status_updates = 0
    /\ ins_pc = "idle"
    /\ ins_job_id = 1
    /\ ins_data = "v1"
    /\ ins_existing = << >>
    /\ ins_result = "none"
    /\ ins_written = "none"
    /\ ins_ops = 0
    /\ candidate_profile = NoProfile /\ active_jobs = << >>
    /\ job_embedding = [j \in Jobs |-> NoEmbedding]
    /\ semantic_candidates = << >> /\ confirmed_matches = << >>
    /\ top_matches = << >> /\ evaluated = << >> /\ accepted = {}
    /\ jm_idx = 0 /\ jm_pc = "idle" /\ jm_error = "none" /\ jm_raised = "none"

\* lines 116-131: the call starts and reads the rows of job_id; a failing
\* select raises, the except returns False
InsertSelect(job_data, job_id) ==
    /\ UNCHANGED <<rr_vars, jm_vars, df_vars, rt_vars, hy_vars, js_vars, pn_vars, cx_vars>>
    /\ ins_pc = "idle"
    /\ ins_ops < MaxInserts
    /\ job_id <= Len(job_status) + 1
    /\ ins_ops' = ins_ops + 1
    /\ ins_job_id' = job_id
    /\ ins_data' = job_data
    /\ ins_written' = "none"
    /\ \/ /\ ins_existing' = SelectJobId(job_status, job_id)
          /\ ins_pc' = "selected"
          /\ ins_result' = "none"
       \/ /\ ins_result' = FALSE
          /\ UNCHANGED <<ins_existing, ins_pc>>
    /\ UNCHANGED job_content

\* lines 133-155: update of the row found, or insert of a new row with
\* status 'active'; a failing write raises, the except returns False
InsertWrite ==
    /\ UNCHANGED <<rr_vars, jm_vars, df_vars, rt_vars, hy_vars, pn_vars, cx_vars>>
    /\ ins_pc = "selected"
    /\ ins_pc' = "idle"
    /\ LET fields == ExtractedFields(ins_data, ins_job_id) IN
       \/ /\ ins_existing # << >>
          /\ LET pk == ins_existing[1]
                 row == UpdateRow([status |-> job_status[pk],
                                   content |-> job_content[pk]], fields)
             IN  /\ job_status' = [job_status EXCEPT ![pk] = row.status]
                 /\ job_content' = [job_content EXCEPT ![pk] = row.content]
          /\ ins_written' = "update"
          /\ ins_result' = TRUE
       \/ /\ ins_existing = << >>
          /\ job_status' = Append(job_status, InsertRow(fields).status)
          /\ job_content' = Append(job_content, InsertRow(fields).content)
          /\ ins_written' = "insert"
          /\ ins_result' = TRUE
       \/ /\ ins_result' = FALSE
          /\ UNCHANGED <<job_status, job_content, ins_written>>
    /\ UNCHANGED <<status_updates, ins_job_id, ins_data, ins_existing, ins_ops>>

\* update_job_status on a posting of the table, between the steps of
\* insert_job_posting too
InsertNext ==
    \/ \E job_data \in JobData, job_id \in 1..MaxPostings :
          InsertSelect(job_data, job_id)
    \/ InsertWrite
    \/ \E job_id \in 1..MaxPostings, status \in Statuses :
          UpdateJobStatus(job_id, status)

(***************************************************************************)
(* Specifications.                                                         *)
(***************************************************************************)
PinsIdle ==
    /\ pinned_blogs = << >> /\ pin_ops = 0
    /\ pin_calls = [c \in PinCallers |-> NoCall]

ContextIdle ==
    /\ candidate_profiles = << >>
    /\ candidate_embeddings = << >>
    /\ requests = [r \in Requests |-> NoRequest]
    /\ procs = [p \in Procs |-> NoProc]
    /\ regen = NoRegen

HybridIdle ==
    /\ final_n_llm = 1 /\ hy_selected = << >> /\ hy_llm_calls = 0 /\ hy_pc = "idle"

RerankIdle ==
    /\ blogs = << >> /\ num_to_select = 1 /\ completion = NoCompletion
    /\ selected = << >> /\ rr_pc = "idle" /\ llm_calls = 0
    /\ rr_raised = FALSE /\ rr_runs = 0 /\ prompt_rows = "complete"

JobsIdle ==
    /\ candidate_profile = NoProfile /\ active_jobs = << >>
    /\ job_status = << >> /\ status_updates = 0
    /\ job_embedding = [j \in Jobs |-> NoEmbedding]
    /\ semantic_candidates = << >> /\ confirmed_matches = << >>
    /\ top_matches = << >> /\ evaluated = << >> /\ accepted = {}
    /\ jm_idx = 0 /\ jm_pc = "idle" /\ jm_error = "none" /\ jm_raised = "none"

DiversityIdle ==
    /\ blog_matches = << >> /\ top_blogs = << >> /\ df_pc = "idle"

RetrieveIdle ==
    /\ rt_candidate = NoCandidate
    /\ passages = [c \in Chunks |-> [blog_id |-> 1, similarity |-> 20]]
    /\ match_count = 1 /\ deduplicate = TRUE /\ found_blogs = << >>
    /\ rt_pc = "idle" /\ rpc_calls = 0 /\ rt_raised = "none"

InsertIdle ==
    /\ job_content = << >> /\ ins_pc = "idle" /\ ins_job_id = 1
    /\ ins_data = "v1" /\ ins_existing = << >> /\ ins_result = "none"
    /\ ins_written = "none" /\ ins_ops = 0

InitRerank == RerankInit /\ JobsIdle /\ DiversityIdle /\ RetrieveIdle /\ HybridIdle /\ PinsIdle /\ ContextIdle /\ InsertIdle
SpecRerank == InitRerank /\ [][RerankNext]_vars

\* the reranker with the fairness its code gives: the steps of the function
\* itself are taken when they can be; the completion of RerankCallLLM
\* arrives when the gateway answers, and the call sets no timeout that
\* would end the wait
SpecRerankLive ==
    /\ InitRerank
    /\ [][RerankNext]_vars
    /\ WF_vars(RerankReturnPool)
    /\ WF_vars(RerankPromptRaises)
    /\ WF_vars(RerankSelect)

InitJobs == JobsInit /\ RerankIdle /\ DiversityIdle /\ RetrieveIdle /\ HybridIdle /\ PinsIdle /\ ContextIdle /\ InsertIdle
SpecJobs == InitJobs /\ [][JobsNext]_vars

InitDiversity == DiversityInit /\ RerankIdle /\ JobsIdle /\ RetrieveIdle /\ HybridIdle /\ PinsIdle /\ ContextIdle /\ InsertIdle
SpecDiversity == InitDiversity /\ [][DiversityNext]_vars

InitRetrieve == RetrieveInit /\ RerankIdle /\ JobsIdle /\ DiversityIdle /\ HybridIdle /\ PinsIdle /\ ContextIdle /\ InsertIdle
SpecRetrieve == InitRetrieve /\ [][RetrieveNext]_vars

InitPostings ==
    PostingsInit /\ RerankIdle /\ DiversityIdle /\ RetrieveIdle /\ HybridIdle /\ PinsIdle /\ ContextIdle /\ InsertIdle
SpecPostings == InitPostings /\ [][PostingsNext]_vars

InitPinned ==
    /\ RetrieveInit /\ passages \in HybridPassages
    /\ deduplicate /\ match_count = MaxBlogs
    /\ PinsInit /\ RerankIdle /\ JobsIdle /\ DiversityIdle /\ HybridIdle
    /\ ContextIdle /\ InsertIdle
SpecPinned == InitPinned /\ [][PinnedNext]_vars

InitContext ==
    /\ ContextInit /\ RerankIdle /\ JobsIdle /\ DiversityIdle /\ RetrieveIdle
    /\ HybridIdle /\ PinsIdle /\ InsertIdle
SpecContext == InitContext /\ [][ContextNext]_vars

InitInsert ==
    /\ InsertInit /\ RerankIdle /\ DiversityIdle /\ RetrieveIdle /\ HybridIdle
    /\ PinsIdle /\ ContextIdle
SpecInsert == InitInsert /\ [][InsertNext]_vars

InitPins ==
    /\ PinsInitAny
    /\ rt_candidate \in CandidateProfiles
    /\ passages = [c \in Chunks |-> [blog_id |-> 1, similarity |-> 20]]
    /\ match_count = 1 /\ deduplicate = TRUE /\ found_blogs = << >>
    /\ rt_pc = "idle" /\ rpc_calls = 0 /\ rt_raised = "none"
    /\ RerankIdle /\ JobsIdle /\ DiversityIdle /\ HybridIdle /\ ContextIdle
    /\ InsertIdle
SpecPins == InitPins /\ [][PinsNext]_vars

InitProfile ==
    /\ ProfileInit /\ RerankIdle /\ JobsIdle /\ DiversityIdle /\ RetrieveIdle
    /\ HybridIdle /\ PinsIdle /\ InsertIdle
SpecProfile == InitProfile /\ [][ProfileNext]_vars

\* one run of the hybrid entry point, or one run of
\* match_candidate_to_jobs
InitMatching ==
    \/ /\ RetrieveInit /\ deduplicate /\ passages \in HybridPassages
       /\ HybridInit /\ RerankIdle /\ JobsIdle /\ DiversityIdle /\ PinsIdle
       /\ ContextIdle /\ InsertIdle
    \/ /\ PostingsInit /\ RerankIdle /\ DiversityIdle /\ RetrieveIdle
       /\ HybridIdle /\ PinsIdle /\ ContextIdle /\ InsertIdle
MatchingNext ==
    \/ RetrieveStart
    \/ RetrieveSearch
    \/ HybridStep2
    \/ JobsStart
    \/ JobsEmbed
    \/ JobsEvaluate
SpecMatching == InitMatching /\ [][MatchingNext]_vars

InitHybrid ==
    /\ RetrieveInit /\ deduplicate /\ passages \in HybridPassages
    /\ HybridInit /\ RerankIdle /\ JobsIdle /\ DiversityIdle /\ PinsIdle /\ ContextIdle /\ InsertIdle
SpecHybrid == InitHybrid /\ [][HybridNext]_vars

(***************************************************************************)
(* Claims about the Hybrid Reranker.                                       *)
(***************************************************************************)
\* the index list the LLM returned, when its text parsed as a JSON array
ReturnedIndices ==
    LET parsed == JsonLoads(CleanResult(completion)) IN
    IF ~completion.raises /\ parsed.ok /\ parsed.value.kind = "array"
    THEN parsed.value.items ELSE << >>

ValidIndex(item, bs) == item.typ = "int" /\ item.val >= 1 /\ item.val <= Len(bs)

\* the completion is unusable: it raised, its text is no JSON array of
\* integers, or no index of the array is valid
Unusable ==
    LET parsed == JsonLoads(CleanResult(completion)) IN
    \/ completion.raises
    \/ ~parsed.ok
    \/ parsed.value.kind # "array"
    \/ \E i \in DOMAIN parsed.value.items : parsed.value.items[i].typ # "int"
    \/ \A i \in DOMAIN parsed.value.items : ~ValidIndex(parsed.value.items[i], blogs)

\* C1: with a pool of distinct Matches longer than num_to_select, invalid
\* indices are dropped and duplicate indices collapse to one, so that no
\* Match appears twice in the returned list.
C1_NoMatchTwice ==
    (rr_pc = "done" /\ llm_calls = 1 /\ NoRepeats(blogs)) => NoRepeats(selected)

C10_ShortPoolUnchanged ==
    (rr_pc = "done" /\ Len(blogs) <= num_to_select) =>
        /\ selected = blogs
        /\ llm_calls = 0
        /\ completion = NoCompletion

\* C10 witness: the second invocation, on the non-empty list the first one
\* returned, has returned.
C10_Witness ==
    /\ rr_pc = "done" /\ rr_runs = 2
    /\ blogs # << >> /\ Len(blogs) = num_to_select
    /\ selected = blogs

\* s without the later occurrences of its elements
RECURSIVE FirstOccurrences(_)
FirstOccurrences(s) ==
    IF s = << >> THEN << >>
    ELSE LET front == FirstOccurrences(SubSeq(s, 1, Len(s) - 1)) IN
         IF s[Len(s)] \in Range(front) THEN front ELSE Append(front, s[Len(s)])

\* the Matches the valid indices of the LLM's list point at, in the order
\* of the list
RECURSIVE SurvivingMatches(_, _)
SurvivingMatches(idxs, bs) ==
    IF idxs = << >> THEN << >>
    ELSE IF ValidIndex(Head(idxs), bs)
         THEN <<bs[Head(idxs).val]>> \o SurvivingMatches(Tail(idxs), bs)
         ELSE SurvivingMatches(Tail(idxs), bs)

\* C11: when the LLM returned a usable selection for a pool of distinct
\* Matches, the returned list is the list of surviving Matches in the order
\* in which the LLM listed their indices, each at its first occurrence.
C11_GatewayOrder ==
    (rr_pc = "done" /\ llm_calls = 1 /\ ~Unusable /\ NoRepeats(blogs)) =>
        selected = FirstOccurrences(SurvivingMatches(ReturnedIndices, blogs))

(***************************************************************************)
(* Claims about the Two-Stage Eligibility Matcher.                         *)
(***************************************************************************)
\* the jobs of a list of [job, similarity] entries, in order
JobsOf(matches) == [i \in DOMAIN matches |-> matches[i].job]

\* the similarity of job j is at least match_threshold
AtLeastThreshold(j) ==
    LET sim == Similarity(candidate_profile.embedding, job_embedding[j].vec)
    IN  /\ sim.exc = "none"
        /\ sim.value.kind # "nan"
        /\ ~Float64Less(sim.value, MatchThreshold)

\* the similarity of job a is at least that of job b
CosineAtLeast(a, b) ==
    LET sa == Similarity(candidate_profile.embedding, job_embedding[a].vec)
        sb == Similarity(candidate_profile.embedding, job_embedding[b].vec)
    IN  /\ sa.exc = "none" /\ sb.exc = "none"
        /\ sa.value.kind # "nan" /\ sb.value.kind # "nan"
        /\ ~Float64Less(sa.value, sb.value)

\* C3: a target is in the output only if the Judgment Gateway returned an
\* evaluation whose is_match is the boolean true for it.
C3_OnlyExplicitAccept ==
    jm_pc = "done" => \A i \in DOMAIN top_matches : top_matches[i].job \in accepted

\* C4: no target whose similarity is below the threshold is in the output,
\* and none is handed to the Judgment Gateway.
C4_GateBeforeReview ==
    /\ \A i \in DOMAIN top_matches : AtLeastThreshold(top_matches[i].job)
    /\ \A i \in DOMAIN evaluated : AtLeastThreshold(evaluated[i])

\* C4 witness: an invocation returned a match although one of the active
\* jobs got an embedding below the threshold.
C4_Witness ==
    /\ jm_pc = "done" /\ top_matches # << >>
    /\ \E i \in DOMAIN active_jobs :
          /\ job_embedding[active_jobs[i]].vec # << >>
          /\ ~AtLeastThreshold(active_jobs[i])

\* C5: when at most LlmReviewCap targets pass the gate and the Judgment
\* Gateway accepts k <= FinalCap of them, the output is exactly those k
\* targets, none lost and none added, ordered by similarity.
C5_ExactlyTheAccepted ==
    (/\ jm_pc = "done"
     /\ Cardinality({j \in Range(active_jobs) : AtLeastThreshold(j)}) <= LlmReviewCap
     /\ Cardinality(accepted) <= FinalCap)
    => /\ Range(JobsOf(top_matches)) = accepted
       /\ Len(top_matches) = Cardinality(accepted)
       /\ \A i, k \in DOMAIN top_matches :
             i < k => CosineAtLeast(top_matches[i].job, top_matches[k].job)

\* C6: the output never holds more than FinalCap matches.
C6_AtMostFinalCap == Len(top_matches) <= FinalCap

\* C6 witness: three targets were confirmed and two came back.
C6_Witness ==
    /\ jm_pc = "done" /\ jm_error = "none"
    /\ Len(confirmed_matches) > FinalCap
    /\ Len(top_matches) = FinalCap

\* C7: the output is sorted by non-increasing similarity.
C7_SortedBySimilarity ==
    \A i, k \in DOMAIN top_matches :
        i < k => CosineAtLeast(top_matches[i].job, top_matches[k].job)

\* C7 witness: two matches came back, the more similar one first although it
\* was read later.
C7_Witness ==
    /\ jm_pc = "done" /\ Len(top_matches) = 2
    /\ top_matches[1].job > top_matches[2].job
    /\ ~CosineAtLeast(top_matches[2].job, top_matches[1].job)

\* C14: a gateway error raised while one target is processed only rejects
\* that target: the invocation is not ended by it, and every other active
\* target still goes through stage 1.
C14_OneTargetErrorIsolated ==
    (jm_pc = "done" /\ \E j \in Range(active_jobs) : job_embedding[j].raises) =>
        /\ jm_error # "APIError"
        /\ \A j \in Range(active_jobs) : job_embedding[j] # NoEmbedding

\* the postings whose status is not active
NotActive == {j \in DOMAIN job_status : job_status[j] # "active"}

\* C15: the postings match_candidate_to_jobs reads are the active ones of
\* that moment, and only postings it read are embedded, judged or
\* returned; so a posting that update_job_status made inactive, filled or
\* closed before the read is not returned.
C15_OnlyActiveTargets ==
    /\ [][(jm_pc = "start" /\ jm_pc' # "start") =>
            Range(active_jobs') \cap NotActive = {}]_vars
    /\ [](/\ \A j \in Jobs : job_embedding[j] # NoEmbedding => j \in Range(active_jobs)
          /\ Range(evaluated) \subseteq Range(active_jobs)
          /\ Range(JobsOf(top_matches)) \subseteq Range(active_jobs))

\* C15 witness: after a call of update_job_status an invocation returned a
\* match while a posting that it did not read is not active.
C15_Witness ==
    /\ jm_pc = "done" /\ top_matches # << >>
    /\ status_updates > 0
    /\ \E j \in NotActive : j \notin Range(active_jobs)

(***************************************************************************)
(* Claims about the Deduplicating Retriever and the Diversity Filter.      *)
(***************************************************************************)
\* C8: with deduplicate=True the returned list holds no blog post twice, and
\* the score kept for a blog post is the highest score among its passages
\* in the passage-level response.
C8_OnePerBlogWithMaxScore ==
    (rt_pc = "done" /\ deduplicate) =>
        /\ \A i, k \in DOMAIN found_blogs :
              i # k => found_blogs[i].blog_id # found_blogs[k].blog_id
        /\ \A i \in DOMAIN found_blogs :
              /\ \E c \in Chunks :
                    /\ passages[c].blog_id = found_blogs[i].blog_id
                    /\ passages[c].similarity = found_blogs[i].similarity
              /\ \A c \in Chunks :
                    passages[c].blog_id = found_blogs[i].blog_id
                    => passages[c].similarity <= found_blogs[i].similarity

\* C8 witness: a blog post with two passages above the threshold, of
\* different scores, was returned.
C8_Witness ==
    /\ rt_pc = "done" /\ deduplicate /\ found_blogs # << >>
    /\ \E c, d \in Chunks :
          /\ passages[c].blog_id = found_blogs[1].blog_id
          /\ passages[d].blog_id = found_blogs[1].blog_id
          /\ passages[c].similarity >= BlogThresholdPct
          /\ passages[d].similarity > passages[c].similarity

\* the candidate row holds a query vector: the professional summary
\* embedding or the legacy embedding
ValidQueryVector ==
    rt_candidate.found
    /\ (rt_candidate.professional_summary_embedding \/ rt_candidate.embedding)

\* no passage of the table reaches the threshold: the search has zero hits
ZeroHits == \A c \in Chunks : passages[c].similarity < BlogThresholdPct

\* C12: for a candidate row without any embedding the retriever fails with
\* a MissingEmbedding error raised to its caller, before any search call.
C12_MissingEmbeddingReported ==
    (rt_pc = "done" /\ rt_candidate.found /\ ~ValidQueryVector) =>
        /\ rt_raised = "MissingEmbedding"
        /\ rpc_calls = 0

\* C13: for a profile with a query vector and a search with zero hits, the
\* retriever queries the search once, returns the empty list and raises
\* nothing; the hybrid selection built on it returns the empty list too,
\* without any LLM call.
C13_EmptyHitsEmptyList ==
    /\ (rt_pc = "done" /\ ValidQueryVector /\ ZeroHits) =>
            /\ rpc_calls = 1
            /\ found_blogs = << >>
            /\ rt_raised = "none"
    /\ (hy_pc = "done" /\ ValidQueryVector /\ ZeroHits) =>
            /\ hy_selected = << >>
            /\ hy_llm_calls = 0

\* C13 witness: a hybrid run for a candidate with only the legacy embedding
\* has returned after a search without hits.
C13_Witness ==
    /\ hy_pc = "done" /\ rt_pc = "done"
    /\ rt_candidate.found /\ rt_candidate.embedding
    /\ ~rt_candidate.professional_summary_embedding
    /\ ZeroHits
    /\ rpc_calls = 1
    /\ hy_selected = << >>

\* the blog posts of the returned rows
FoundBlogIds(rows) == {rows[i].blog_id : i \in DOMAIN rows}

\* C16: whenever find_blogs_for_candidate returns from its search for a
\* candidate, every blog pinned for that candidate at that moment is among
\* the returned blogs.
C16_PinnedAlwaysIncluded ==
    [][(rt_pc = "search" /\ rt_pc' = "done") =>
          Range(pinned_blogs) \subseteq FoundBlogIds(found_blogs')]_vars

(***************************************************************************)
(* Claims about /api/update-context.                                       *)
(***************************************************************************)
\* the additional contexts held by a text
ContextsIn(text) == {text[i].context : i \in DOMAIN text}

\* C17: the stored text of a section holds the text stored before the
\* calls and the additional_context of every call on that section that was
\* answered with success, however the calls interleave.
C17_AppendsNeverReplaces ==
    \A k \in DOMAIN candidate_embeddings :
        LET stored_text == candidate_embeddings[k].text IN
        /\ stored_text["interests"] # << >>
        /\ stored_text["interests"][1] = OriginalParagraph
        /\ \A r \in Requests :
              (requests[r].pc = "done" /\ requests[r].status = 200) =>
                  ContextOf(r) \in ContextsIn(stored_text[requests[r].section])

\* the rows are in non-increasing order of similarity and at most cap many
SortedAndCapped(rows, cap) ==
    /\ \A i, k \in DOMAIN rows : i < k => rows[i].similarity >= rows[k].similarity
    /\ Len(rows) <= cap

\* no blog post has two rows
OnePerDocument(rows) ==
    \A i, k \in DOMAIN rows : i # k => rows[i].blog_id # rows[k].blog_id

\* C18 as stated: the list find_blogs_for_candidate returns is ordered by
\* non-increasing similarity, has at most match_count elements and holds
\* one element per distinct Document.
C18_SortedCappedOnePerDocument ==
    rt_pc = "done" =>
        /\ SortedAndCapped(found_blogs, match_count)
        /\ OnePerDocument(found_blogs)

\* C18 amended: the list find_blogs_for_candidate returns is ordered by
\* non-increasing similarity and has at most match_count elements; called
\* with deduplicate=True (the default) it holds one element per distinct
\* Document.
C18_SortedCappedOnePerDocumentIfDedup ==
    rt_pc = "done" =>
        /\ SortedAndCapped(found_blogs, match_count)
        /\ deduplicate => OnePerDocument(found_blogs)

\* C18 witness: with deduplicate=True two blog posts came back in
\* descending order of their scores, one of them with two passages above the
\* threshold.
C18_Witness ==
    /\ rt_pc = "done" /\ deduplicate
    /\ Len(found_blogs) = 2
    /\ found_blogs[1].similarity > found_blogs[2].similarity
    /\ \E c, d \in Chunks :
          /\ c # d
          /\ passages[c].blog_id = passages[d].blog_id
          /\ passages[c].similarity >= BlogThresholdPct
          /\ passages[d].similarity >= BlogThresholdPct

\* C9: the diversity loop returns exactly min(TargetCount, len(matches))
\* matches for every input list, lists with equal entries included.
C9_LengthIsMin ==
    df_pc = "done" => Len(top_blogs) = Min(TargetCount, Len(blog_matches))

\* out is made of entries of inp, taken in the order they have in inp
InInputOrder(out, inp) ==
    \E f \in [DOMAIN out -> DOMAIN inp] :
        /\ \A i \in DOMAIN out : inp[f[i]] = out[i]
        /\ \A i, k \in DOMAIN out : i < k => f[i] < f[k]

\* C19: the diversity loop never re-sorts: what the first pass selected is
\* in input order, the second pass leaves it in place and adds its own
\* matches after it, in input order.
C19_OrderKeptInEachPass ==
    /\ [](df_pc = "second" => InInputOrder(top_blogs, blog_matches))
    /\ [][df_pc = "second" =>
            /\ Len(top_blogs') >= Len(top_blogs)
            /\ SubSeq(top_blogs', 1, Len(top_blogs)) = top_blogs
            /\ InInputOrder(SubSeq(top_blogs', Len(top_blogs) + 1, Len(top_blogs')),
                            blog_matches)]_vars

\* C19 witness: the output holds two matches of the first pass and after
\* them a match of the second pass that stands before them in the input.
C19_Witness ==
    /\ df_pc = "done" /\ Len(top_blogs) = 3 /\ Len(blog_matches) >= 3
    /\ top_blogs[3] = blog_matches[1]
    /\ top_blogs[1] = blog_matches[2]
    /\ top_blogs[2] = blog_matches[3]

\* the titles of BlogTitles that contain an excluded marker when case is
\* ignored: "TEAM" and "Steam" contain "team"
MarkedTitles == { <<"T", "E", "A", "M">>, <<"S", "t", "e", "a", "m">> }

\* the matches of a list whose title contains no excluded marker
NonGeneric(matches) ==
    LET Unmarked(m) == m.blog_title \notin MarkedTitles
    IN  SelectSeq(matches, Unmarked)

\* C20: a match with an excluded marker in its title is in the output only
\* if the input holds fewer than TargetCount matches without one; with at
\* least TargetCount such matches the output is the first TargetCount of
\* them.
C20_PrefersNonGeneric ==
    df_pc = "done" =>
        /\ (\E i \in DOMAIN top_blogs : top_blogs[i].blog_title \in MarkedTitles)
              => Len(NonGeneric(blog_matches)) < TargetCount
        /\ Len(NonGeneric(blog_matches)) >= TargetCount
              => top_blogs = SubSeq(NonGeneric(blog_matches), 1, TargetCount)

\* C20 witness: the input starts with the match titled "TEAM" and holds
\* three matches without a marker; the output is those three.
C20_Witness ==
    /\ df_pc = "done" /\ Len(blog_matches) = 4
    /\ blog_matches[1].blog_title = <<"T", "E", "A", "M">>
    /\ Len(NonGeneric(blog_matches)) = 3
    /\ top_blogs = SubSeq(blog_matches, 2, 4)

(***************************************************************************)
(* Further claims about the Two-Stage Eligibility Matcher.                 *)
(***************************************************************************)
\* the stage 1 survivors that are more similar than survivor k
MoreSimilar(k) ==
    {m \in DOMAIN semantic_candidates :
        SimLess(semantic_candidates[k].similarity, semantic_candidates[m].similarity)}

\* C21: the Judgment Gateway is called at most once per target, only for
\* stage 1 survivors that have fewer than LlmReviewCap survivors of higher
\* similarity, and so at most LlmReviewCap times in one invocation.
C21_ReviewOnlyTopFive ==
    /\ Len(evaluated) <= LlmReviewCap
    /\ NoRepeats(evaluated)
    /\ \A i \in DOMAIN evaluated :
          \E k \in DOMAIN semantic_candidates :
              /\ semantic_candidates[k].job = evaluated[i]
              /\ Cardinality(MoreSimilar(k)) < LlmReviewCap

\* C21 witness: six targets passed the gate, five were judged, and the
\* invocation returned.
C21_Witness ==
    /\ jm_pc = "done" /\ jm_error = "none"
    /\ Len(semantic_candidates) > LlmReviewCap
    /\ Len(evaluated) = LlmReviewCap

\* an active job got an embedding whose dimension is not the profile's
DimensionMismatch ==
    \E j \in Range(active_jobs) :
        /\ job_embedding[j].vec # << >>
        /\ Len(job_embedding[j].vec) # Len(candidate_profile.embedding)

\* C22: when a target's embedding and the profile's vector differ in
\* dimension, the invocation ends with a DimensionMismatch error raised to
\* its caller, and no target is judged or returned on a similarity of that
\* pair.
C22_DimensionMismatchReported ==
    (jm_pc = "done" /\ DimensionMismatch) =>
        /\ jm_raised = "DimensionMismatch"
        /\ top_matches = << >>

(***************************************************************************)
(* Further claims about the hybrid retrieve-and-rerank entry point.        *)
(***************************************************************************)
\* C23: a finished hybrid run returns at most final_n_llm blogs, for every
\* pool and every completion of the selection call.
C23_AtMostFinalN ==
    hy_pc = "done" => Len(hy_selected) <= final_n_llm

(***************************************************************************)
(* Claims about insert_job_posting.                                        *)
(***************************************************************************)
\* C28: a call of insert_job_posting for a job_id that has a row writes the
\* new content to that row and leaves every status of the table as it is;
\* a call for a new job_id adds one row, with status 'active' and the
\* content of the call, and changes no other row.
C28_InsertKeepsStatus ==
    [][(ins_pc = "selected" /\ ins_pc' = "idle" /\ ins_result' = TRUE) =>
          IF ins_job_id \in DOMAIN job_status
          THEN /\ job_status' = job_status
               /\ job_content' = [job_content EXCEPT ![ins_job_id] = ins_data]
          ELSE /\ job_status' = Append(job_status, "active")
               /\ job_content' = Append(job_content, ins_data)]_vars

\* C28 witness: a call updated the content of a posting that is not active
C28_Witness ==
    /\ ins_pc = "idle" /\ ins_written = "update"
    /\ job_status[ins_job_id] # "active"
    /\ job_content[ins_job_id] = ins_data

(***************************************************************************)
(* Claims about PinnedBlogManager.                                         *)
(***************************************************************************)
\* C30: calls of add_pinned_blog, remove_pinned_blog and
\* clear_all_pinned_blogs made one after the other on a list without
\* duplicates leave a list without duplicates; a call that adds a URL
\* already pinned, or removes a URL that is not pinned, returns False and
\* leaves the list as it was.
C30_NoDuplicatePins ==
    /\ [] NoRepeats(pinned_blogs)
    /\ [][(pin_ops' = pin_ops + 1 /\
             \/ /\ pin_calls'[SequentialCaller].op = "add"
                /\ pin_calls'[SequentialCaller].url \in Range(pinned_blogs)
             \/ /\ pin_calls'[SequentialCaller].op = "remove"
                /\ pin_calls'[SequentialCaller].url \notin Range(pinned_blogs))
           => /\ pin_calls'[SequentialCaller].pc = "done"
              /\ pin_calls'[SequentialCaller].result = FALSE
              /\ pinned_blogs' = pinned_blogs]_vars

\* C30 witness: add_pinned_blog was called for a URL of a list of two
\* pinned URLs and returned False
C30_Witness ==
    /\ pin_calls[SequentialCaller].pc = "done"
    /\ pin_calls[SequentialCaller].op = "add"
    /\ pin_calls[SequentialCaller].result = FALSE
    /\ rt_candidate.found
    /\ Len(pinned_blogs) = 2
    /\ pin_calls[SequentialCaller].url \in Range(pinned_blogs)

(***************************************************************************)
(* Claims about the stored profile texts and vectors.                      *)
(***************************************************************************)
\* C25: in every row of candidate_embeddings, after any interleaving of
\* process-candidate and update-context requests, failed ones included, the
\* embedding of each of the three fields is the embedding generated from
\* the text stored in that field.
C25_EmbeddingOfStoredText ==
    \A k \in DOMAIN candidate_embeddings :
        \A f \in Fields :
            IF candidate_embeddings[k].embedding[f] = NullEmbedding
            THEN candidate_embeddings[k].text[f] = << >>
            ELSE candidate_embeddings[k].embedding[f] =
                     GenerateEmbedding(candidate_embeddings[k].text[f])

\* C25 witness: a process-candidate request replaced the three texts, the
\* update-context request then appended to one of them, and another
\* process-candidate request failed
C25_Witness ==
    /\ \E p \in Procs : procs[p].pc = "done" /\ procs[p].result = TRUE
    /\ \E p \in Procs : procs[p].pc = "done" /\ procs[p].result = FALSE
    /\ \E r \in Requests : requests[r].pc = "done" /\ requests[r].status = 200
    /\ \E k \in DOMAIN candidate_embeddings, f \in Fields :
          LET text == candidate_embeddings[k].text[f] IN
          /\ Len(text) = 2
          /\ text[1].stamp = "summary"
          /\ text[2].stamp = "[Updated timestamp] "

\* C29: after any interleaving of process-candidate requests for one
\* candidate_id there is at most one row of candidate_profiles for it and
\* at most one row of candidate_embeddings for a profile.
C29_NoDuplicateRows ==
    /\ Len(candidate_profiles) <= 1
    /\ \A i, k \in DOMAIN candidate_embeddings :
          i # k => candidate_embeddings[i].candidate_profile_id #
                   candidate_embeddings[k].candidate_profile_id

\* a step of request r changes, in every row, at most the text and the
\* embedding of the section the request names
OnlyNamedSection(r) ==
    /\ DOMAIN candidate_embeddings' = DOMAIN candidate_embeddings
    /\ candidate_profiles' = candidate_profiles
    /\ \A k \in DOMAIN candidate_embeddings :
          \A f \in Fields \ {requests[r].section} :
             /\ candidate_embeddings'[k].text[f] = candidate_embeddings[k].text[f]
             /\ candidate_embeddings'[k].embedding[f] =
                    candidate_embeddings[k].embedding[f]

\* request r names a section: its body can be read as a JSON object
NamesSection(r) == requests[r].body # "raising"

\* the step ends request r with the given status and changes no row
RejectedWith(r, status) ==
    /\ requests'[r].pc = "done"
    /\ requests'[r].status = status
    /\ candidate_embeddings' = candidate_embeddings

StoredState ==
    <<rt_candidate, passages, candidate_profile, job_status, job_content,
      pinned_blogs, candidate_profiles, candidate_embeddings>>

\* C24: no step of find_blogs_for_candidate, select_best_blogs_with_llm,
\* find_blogs_for_candidate_hybrid or match_candidate_to_jobs changes a
\* stored row, whether the step succeeds or fails, and the list handed to
\* select_best_blogs_with_llm is the same list after the call.
C24_MatchingIsReadOnly ==
    [][/\ StoredState' = StoredState
       /\ (hy_pc = "step1" /\ hy_pc' = "done") => found_blogs' = found_blogs]_vars

\* C24 witness: the hybrid run asked the LLM and returned fewer blogs than
\* the list it handed over, which still holds them all
C24_Witness ==
    /\ hy_pc = "done"
    /\ hy_llm_calls = 1
    /\ Len(found_blogs) > final_n_llm
    /\ Len(hy_selected) < Len(found_blogs)

(***************************************************************************)
(* Claims about termination.                                               *)
(***************************************************************************)
\* C27: every invocation of the reranker returns, also when the gateway
\* never answers the completion request.
C27_EveryInvocationReturns ==
    (rr_pc = "start") ~> (rr_pc = "done")

====
